---- MODULE Spec2Model ----
(***************************************************************************)
(* Measurements with uncertainties (myzhang1029/measurements).             *)
(*                                                                         *)
(* Objects live on a heap: U holds the Uncertainty objects, M the          *)
(* Measurement objects; a Measurement refers to its Uncertainty by         *)
(* identity, as in Python.  Numbers are exact: a center is a rational, a   *)
(* magnitude is a signed square root of a rational (the closure of the     *)
(* rationals under the quadrature sum), so float64 round-off is outside    *)
(* the model.  An array value is [arr |-> TRUE, v |-> <<...>>], a 0-d      *)
(* value is [arr |-> FALSE, v |-> <<x>>].  registry is the warning         *)
(* registry of the Python process: the call sites whose warning has been   *)
(* shown.                                                                  *)
(***************************************************************************)
EXTENDS Integers, Sequences, FiniteSets, TLC

VARIABLES U, M, origin, last, steps, registry

vars == <<U, M, origin, last, steps, registry>>

(***************************************************************************)
(* Exact rationals [n, d], d > 0, in lowest terms.  The integers of the    *)
(* model are narrower than the 53 bits of a float64 mantissa: a sum or a   *)
(* product whose terms pass IntLimit is TooBig, a value that every         *)
(* operation passes on and that no action lets into the state.             *)
(***************************************************************************)
Abs(i) == IF i < 0 THEN -i ELSE i

Sgn(i) == IF i < 0 THEN -1 ELSE IF i = 0 THEN 0 ELSE 1

RECURSIVE GCD(_, _)
GCD(a, b) == IF b = 0 THEN a ELSE GCD(b, a % b)

RECURSIVE Pow10(_)
Pow10(e) == IF e = 0 THEN 1 ELSE 10 * Pow10(e - 1)

Rat(n, d) ==
    LET g == GCD(Abs(n), Abs(d))
    IN  [n |-> Sgn(d) * (n \div g), d |-> Abs(d) \div g]

RInt(i) == [n |-> i, d |-> 1]

IntLimit == 2^30

TooBig == [n |-> 0, d |-> 0]

MulFits(a, b) == a = 0 \/ b = 0 \/ Abs(a) <= IntLimit \div Abs(b)

RNeg(x) == [n |-> -x.n, d |-> x.d]

RAbs(x) == [n |-> Abs(x.n), d |-> x.d]

\* x + y, dividing before multiplying so that intermediate values stay small:
\* g is gcd(x.d, y.d) and t the numerator over the common denominator
RAddT(x, y, g, t) ==
    IF t = 0 THEN RInt(0)
    ELSE IF Abs(t) > IntLimit \/ ~MulFits(x.d \div g, y.d \div GCD(Abs(t), g)) THEN TooBig
    ELSE [n |-> t \div GCD(Abs(t), g), d |-> (x.d \div g) * (y.d \div GCD(Abs(t), g))]

RAddG(x, y, g) ==
    IF ~MulFits(x.n, y.d \div g) \/ ~MulFits(y.n, x.d \div g) THEN TooBig
    ELSE RAddT(x, y, g, x.n * (y.d \div g) + y.n * (x.d \div g))

RAdd(x, y) == IF x.d = 0 \/ y.d = 0 THEN TooBig ELSE RAddG(x, y, GCD(x.d, y.d))

RSub(x, y) == RAdd(x, RNeg(y))

\* x * y, cancelling g1 = gcd(x.n, y.d) and g2 = gcd(y.n, x.d) first
RMulG(x, y, g1, g2) ==
    IF ~MulFits(x.n \div g1, y.n \div g2) \/ ~MulFits(x.d \div g2, y.d \div g1) THEN TooBig
    ELSE [n |-> (x.n \div g1) * (y.n \div g2), d |-> (x.d \div g2) * (y.d \div g1)]

RMul(x, y) ==
    IF x.d = 0 \/ y.d = 0 THEN TooBig
    ELSE IF x.n = 0 \/ y.n = 0 THEN RInt(0)
    ELSE RMulG(x, y, GCD(Abs(x.n), y.d), GCD(Abs(y.n), x.d))

\* 1 / x, x # 0
RInv(x) == [n |-> Sgn(x.n) * x.d, d |-> Abs(x.n)]

RDiv(x, y) == RMul(x, RInv(y))

RFloor(x) == x.n \div x.d

\* a/b <= c/d for naturals a, c and positive b, d, by Euclid's algorithm
\* (no products, hence no overflow)
RECURSIVE FracLe(_, _, _, _)
FracLe(a, b, c, d) ==
    LET qa == a \div b
        qc == c \div d
        ra == a % b
        rc == c % d
    IN  IF qa # qc THEN qa < qc
        ELSE IF ra = 0 THEN TRUE
        ELSE IF rc = 0 THEN FALSE
        ELSE FracLe(d, rc, b, ra)

RLe(x, y) ==
    IF x.n < 0
    THEN IF y.n < 0 THEN FracLe(-y.n, y.d, -x.n, x.d) ELSE TRUE
    ELSE IF y.n < 0 THEN FALSE ELSE FracLe(x.n, x.d, y.n, y.d)

RLt(x, y) == ~RLe(y, x)

\* x * 10^e for any integer e
RScale10(x, e) ==
    IF e >= 0 THEN RMul(x, RInt(Pow10(e))) ELSE RMul(x, Rat(1, Pow10(-e)))

\* floor(sqrt(i)) for a natural i
RECURSIVE ISqrt(_)
ISqrt(i) ==
    IF i < 4 THEN (IF i = 0 THEN 0 ELSE 1)
    ELSE LET h == 2 * ISqrt(i \div 4)
         IN  IF (h + 1) * (h + 1) <= i THEN h + 1 ELSE h

IsSquare(i) == ISqrt(i) * ISqrt(i) = i

(***************************************************************************)
(* Reals of the form s * sqrt(q), s in {-1, 0, 1}, q a rational >= 0,      *)
(* s = 0 exactly when q = 0.  Every real of this form has one record.      *)
(***************************************************************************)
Real(s, q) ==
    IF q.d = 0 THEN [s |-> 0, q |-> TooBig]
    ELSE IF q.n = 0 \/ s = 0 THEN [s |-> 0, q |-> RInt(0)] ELSE [s |-> s, q |-> q]

\* the rational x as a real
OfRat(x) == Real(Sgn(x.n), RMul(x, x))

\* the real x as a rational, when IsRational(x)
ToRat(x) == IF x.q.d = 0 THEN TooBig ELSE Rat(x.s * ISqrt(x.q.n), ISqrt(x.q.d))

XAbs(x) == Real(Abs(x.s), x.q)

XNeg(x) == Real(-x.s, x.q)

\* real times rational, real divided by a non-zero rational
XMulR(x, k) == Real(x.s * Sgn(k.n), RMul(x.q, RMul(k, k)))

XDivR(x, k) == XMulR(x, RInv(k))

\* floor of a real: floor(sqrt(q)) is the integer root of floor(q)
XFloor(x) ==
    LET f == ISqrt(RFloor(x.q))
    IN  IF x.s >= 0 THEN f
        ELSE IF f * f = x.q.n /\ x.q.d = 1 THEN -f ELSE -(f + 1)

XGeZero(x) == x.s >= 0

(***************************************************************************)
(* Rounding.  A number enters the program as the float64 nearest to it,    *)
(* and a decimal tie (x * 10^nd = k + 1/2) is broken by the two round      *)
(* functions the program uses in different ways:                           *)
(*   - Python's round(float, nd) rounds the float's exact value, so the    *)
(*     tie goes to the side the float lies on, and to even when the float  *)
(*     is exact;                                                           *)
(*   - numpy's round computes rint(x * 10^nd): the product is rounded to   *)
(*     float64 first, which as a rule lands on k + 1/2 exactly, and rint   *)
(*     then rounds half to even.                                           *)
(* Away from ties both round to the nearest.  ReprErr gives the side of    *)
(* the float: for x = p/q, q = 2^i * 5^j, the float is M / 2^s with        *)
(* s = 52 - floor(log2 x), and M - x * 2^s is decided by                   *)
(* (p * 2^(s-i)) mod 5^j.                                                  *)
(* A rounded number is [neg, k, nd]: the value (-1)^neg * k * 10^(-nd);    *)
(* neg is kept apart from k because float64 has a negative zero.           *)
(***************************************************************************)
RECURSIVE Pow(_, _)
Pow(b, e) == IF e = 0 THEN 1 ELSE b * Pow(b, e - 1)

RECURSIVE PowMod(_, _, _)
PowMod(b, e, m) == IF e = 0 THEN 1 % m ELSE (b * PowMod(b, e - 1, m)) % m

\* how often the prime b divides q
RECURSIVE Multiplicity(_, _)
Multiplicity(q, b) == IF q % b # 0 THEN 0 ELSE 1 + Multiplicity(q \div b, b)

\* floor(log2(x)) for a rational x > 0
RECURSIVE Log2Up(_, _)
Log2Up(x, j) == IF RLt(x, RInt(Pow(2, j + 1))) THEN j ELSE Log2Up(x, j + 1)

RECURSIVE Log2Down(_, _)
Log2Down(x, j) == IF RLe(Rat(1, Pow(2, -j)), x) THEN j ELSE Log2Down(x, j - 1)

FloorLog2(x) == IF RLe(RInt(1), x) THEN Log2Up(x, 0) ELSE Log2Down(x, -1)

\* float64(x) - x for a rational x > 0 whose denominator is 2^i * 5^j:
\* its sign, and its size r/m in units of the float's last place
ReprSide(rem, m) ==
    IF 2 * rem < m THEN [sgn |-> -1, r |-> rem, m |-> m] ELSE [sgn |-> 1, r |-> m - rem, m |-> m]

\* i is the multiplicity of 2 in x.d, m the power of 5 in x.d
ReprErrOf(x, i, m, s) ==
    IF m = 1 THEN [sgn |-> 0, r |-> 0, m |-> 1]
    ELSE ReprSide(((x.n % m) * PowMod(2, s - i, m)) % m, m)

ReprErr(x) ==
    ReprErrOf(x, Multiplicity(x.d, 2), Pow(5, Multiplicity(x.d, 5)), 52 - FloorLog2(x))

Sq(i) == i * i

\* y = k + 1/2 for the integer k = floor(y)
IsTie(y) == y.q = Rat(Sq(2 * XFloor(y) + 1), 4)

\* the integer nearest to the real y >= 0 that is no tie
XNearest(y) == IF RLt(Rat(Sq(2 * XFloor(y) + 1), 4), y.q) THEN XFloor(y) + 1 ELSE XFloor(y)

HalfEven(f) == IF f % 2 = 0 THEN f ELSE f + 1

\* a tie k + 1/2 goes down, up or to even as the float lies below, above or on it
TieBreak(k, side) == IF side < 0 THEN k ELSE IF side > 0 THEN k + 1 ELSE HalfEven(k)

\* y = x * 10^nd rounded to an integer, ties by the side of the float x
PyRintOf(x, y) ==
    IF ~IsTie(y) THEN XNearest(y) ELSE TieBreak(XFloor(y), ReprErr(ToRat(x)).sgn)

\* Python: round(x, nd) for a float x >= 0, as the integer k of k * 10^(-nd)
PyRint(x, nd) == PyRintOf(x, XMulR(x, RScale10(RInt(1), nd)))

\* the side on which the float product x * 10^nd misses the tie: the error e of
\* x, scaled, against half a unit in the last place of the tie, j2 binades up
NpSide(e, j2, nd) ==
    IF e.sgn # 0 /\ 2 * e.r * Pow10(nd) > e.m * Pow(2, j2) THEN e.sgn ELSE 0

NpRintOf(x, y, nd) ==
    IF ~IsTie(y) THEN XNearest(y)
    ELSE TieBreak(XFloor(y),
                  NpSide(ReprErr(ToRat(x)), FloorLog2(ToRat(y)) - FloorLog2(ToRat(x)), nd))

\* numpy: rint(x * 10^nd) for a float64 x >= 0; the product of a tie misses
\* k + 1/2 when the error of x, scaled, exceeds half a unit in the last place
\* of k + 1/2
NpRint(x, nd) == NpRintOf(x, XMulR(x, RScale10(RInt(1), nd)), nd)

\* Python's round(x, nd) for a real x
PyRound(x, nd) == [neg |-> x.s < 0, k |-> PyRint(XAbs(x), nd), nd |-> nd]

\* numpy's round(x, nd) for a real x
NpRound(x, nd) == [neg |-> x.s < 0, k |-> NpRint(XAbs(x), nd), nd |-> nd]

\* the value of a rounded number, as a rational
RoundedValue(r) == RScale10(RInt(IF r.neg THEN -r.k ELSE r.k), -r.nd)

(***************************************************************************)
(* Decimal strings.                                                        *)
(***************************************************************************)
DigitChar(d) == <<"0", "1", "2", "3", "4", "5", "6", "7", "8", "9">>[d + 1]

RECURSIVE NatStr(_)
NatStr(i) == IF i < 10 THEN DigitChar(i) ELSE NatStr(i \div 10) \o DigitChar(i % 10)

\* the last nd decimal digits of i, zero-padded
RECURSIVE FracStr(_, _)
FracStr(i, nd) == IF nd = 0 THEN "" ELSE FracStr(i \div 10, nd - 1) \o DigitChar(i % 10)

\* f"{x:.{nd}f}" for a number x already rounded to nd >= 0 digits
FormatFixed(r) ==
    (IF r.neg THEN "-" ELSE "")
        \o NatStr(r.k \div Pow10(r.nd))
        \o (IF r.nd = 0 THEN "" ELSE "." \o FracStr(r.k, r.nd))

\* str(int(x)) for a number x rounded to nd < 0 digits
FormatInt(r) ==
    (IF r.neg /\ r.k # 0 THEN "-" ELSE "") \o NatStr(r.k * Pow10(-r.nd))

RECURSIVE Join(_)
Join(strs) ==
    IF Len(strs) = 0 THEN ""
    ELSE IF Len(strs) = 1 THEN strs[1]
    ELSE strs[1] \o ", " \o Join(Tail(strs))

(***************************************************************************)
(* src/measurements.py: _get_significant_digit_one                         *)
(***************************************************************************)
\* the number of decimal digits of a natural
RECURSIVE NumDigits(_)
NumDigits(k) == IF k < 10 THEN 1 ELSE 1 + NumDigits(k \div 10)

\* floor(log10(x)) for a real x = sqrt(q) > 0: for q >= 1 from the digits of
\* floor(q), for q < 1 from the digits of ceil(1/q)
FloorLog10(x) ==
    IF RLe(RInt(1), x.q)
    THEN (NumDigits(RFloor(x.q)) - 1) \div 2
    ELSE LET c == (x.q.d + x.q.n - 1) \div x.q.n
         IN  -((NumDigits(c - 1) + 1) \div 2)

\* int(absv / 10**npow)
LeadingDigits(absv, npow) == XFloor(XMulR(absv, RScale10(RInt(1), -npow)))

\* the edge case: the next two digits round up to 20
edge_case(t, npow) == IF t \div 10 = 2 /\ t % 10 = 0 THEN -(npow + 1) ELSE -npow

\* after npow -= 1
keep_next_digit(u, npow) ==
    edge_case(RFloor(RDiv(RAbs(RoundedValue(PyRound(u, -npow))), RScale10(RInt(1), npow))),
              npow)

significant_digit_at(u, npow) ==
    IF LeadingDigits(XAbs(u), npow) = 1 THEN keep_next_digit(u, npow - 1) ELSE -npow

get_significant_digit_one(u) ==
    IF u.s = 0 THEN 0 ELSE significant_digit_at(u, FloorLog10(XAbs(u)))

(***************************************************************************)
(* numpy values.  A value is [arr, v]; an operation that raises yields     *)
(* [err |-> <exception>] instead, and an error operand is passed through.  *)
(* "NonFinite" (a division by zero: inf or nan) and "Unrepresentable" (a   *)
(* real that is no signed root of a rational, or one that is TooBig) are   *)
(* not exceptions: they mark results outside the model's numbers, and the  *)
(* actions exclude them.                                                   *)
(***************************************************************************)
Raise(e) == [err |-> e]

IsErr(x) == "err" \in DOMAIN x

Scalar(x) == [arr |-> FALSE, v |-> <<x>>]

Array(xs) == [arr |-> TRUE, v |-> xs]

VLen(x) == Len(x.v)

\* numpy broadcasting of two shapes that are () or (n,)
Compat(x, y) == VLen(x) = VLen(y) \/ VLen(x) = 1 \/ VLen(y) = 1

At(x, i) == IF VLen(x) = 1 THEN x.v[1] ELSE x.v[i]

\* the broadcast length; an empty array broadcasts with a scalar to an empty one
BLen(x, y) ==
    IF VLen(x) = 0 \/ VLen(y) = 0 THEN 0 ELSE IF VLen(x) >= VLen(y) THEN VLen(x) ELSE VLen(y)

\* a rational or a real that is TooBig
IsTooBig(e) == IF "d" \in DOMAIN e THEN e.d = 0 ELSE e.q.d = 0

Checked(x) == IF \E i \in 1..VLen(x) : IsTooBig(x.v[i]) THEN Raise("Unrepresentable") ELSE x

Map1(Op(_), x) ==
    IF IsErr(x) THEN x
    ELSE Checked([arr |-> x.arr, v |-> [i \in 1..VLen(x) |-> Op(x.v[i])]])

Map2(Op(_, _), x, y) ==
    IF IsErr(x) THEN x
    ELSE IF IsErr(y) THEN y
    ELSE IF ~Compat(x, y) THEN Raise("ValueError")
    ELSE Checked([arr |-> x.arr \/ y.arr,
                  v |-> [i \in 1..BLen(x, y) |-> Op(At(x, i), At(y, i))]])

AnyElem(P(_), x) == \E i \in 1..VLen(x) : P(x.v[i])

(***************************************************************************)
(* src/round_uncert.py: round_uncert                                       *)
(***************************************************************************)
\* the names bound in the module: it has no import statement, its four
\* functions are all it defines
ModuleNames ==
    {"round_uncert", "round_uncert_np", "round_uncert_str", "round_uncert_arr_str"}

\* -npow after `if msd == 1: npow -= 1`
digits_kept(r, npow) ==
    IF LeadingDigits(XAbs(r), npow) = 1 THEN -(npow - 1) ELSE -npow

\* the statements after `absr = abs(r)`: (round(r, -npow), -npow)
round_uncert_body(r) ==
    LET n == digits_kept(r, FloorLog10(XAbs(r)))
    IN  [rounded |-> PyRound(r, n), digits |-> n]

\* round_uncert(r); for r == 0 it returns (r, 0), and math.floor is the first
\* name it looks up after that
round_uncert(r) ==
    IF r.s = 0 THEN [rounded |-> PyRound(r, 0), digits |-> 0]
    ELSE IF "math" \notin ModuleNames THEN Raise("NameError")
    ELSE round_uncert_body(r)


RIsZero(x) == x.n = 0

\* center arithmetic (rationals)
VAdd(x, y) == Map2(RAdd, x, y)

VSub(x, y) == Map2(RSub, x, y)

VMul(x, y) == Map2(RMul, x, y)

VDiv(x, y) ==
    IF ~IsErr(y) /\ AnyElem(RIsZero, y) THEN Raise("NonFinite") ELSE Map2(RDiv, x, y)

VAbs(x) == Map1(RAbs, x)

(***************************************************************************)
(* src/measurements.py: class Uncertainty.  An Uncertainty object is its   *)
(* field u; the methods below take and return values of u.                 *)
(***************************************************************************)
\* __init__: self.u = abs(np.asarray(uncert))
Uncertainty_init(uncert) == Map1(XAbs, uncert)

\* a selector that gives every element the exponent of the first one
significant_digit_shared(u) ==
    [arr |-> u.arr, v |-> [i \in 1..VLen(u) |-> get_significant_digit_one(u.v[1])]]

Uncertainty_get_significant_digit(u) ==
    [arr |-> u.arr, v |-> [i \in 1..VLen(u) |-> get_significant_digit_one(u.v[i])]]

Uncertainty_is_array_type(u) == u.arr

format_rounded(r) == IF r.nd >= 0 THEN FormatFixed(r) ELSE FormatInt(r)

\* str_one of __str__
str_one(u, npow) == format_rounded(NpRound(u, npow))

Uncertainty_str(u) ==
    IF Uncertainty_is_array_type(u)
    THEN "[" \o Join([i \in 1..VLen(u) |->
                        str_one(u.v[i], Uncertainty_get_significant_digit(u).v[i])]) \o "]"
    ELSE str_one(u.v[1], Uncertainty_get_significant_digit(u).v[1])

\* a * b is rational when both are roots and the product p of the squares is a square
IsSquareRat(p) == p.d # 0 /\ IsSquare(p.n) /\ IsSquare(p.d)

CrossRepresentable(a, b) == IsSquareRat(RMul(a.q, b.q))

\* a * b from the product p of the squares
CrossTerm(a, b, p) == Rat(a.s * b.s * ISqrt(p.n), ISqrt(p.d))

\* self.u**2 + other.u**2 + 2 * self.u * other.u * r, for one element
QuadratureSquare(a, b, r) ==
    RAdd(RAdd(a.q, b.q), RMul(RInt(2), RMul(CrossTerm(a, b, RMul(a.q, b.q)), r)))

\* m ** 0.5 of a negative m is nan
QuadratureDefined(a, b, r) == r.n = 0 \/ QuadratureSquare(a, b, r).n >= 0

\* add_uncert that drops the correlation term
add_uncert_uncorrelated(u, other, r) ==
    IF IsErr(u) THEN u
    ELSE IF IsErr(other) THEN other
    ELSE Uncertainty_init(Map2(LAMBDA a, b : Real(1, RAdd(a.q, b.q)), u, other))

Uncertainty_add_uncert(u, other, r) ==
    IF IsErr(u) THEN u
    ELSE IF IsErr(other) THEN other
    ELSE IF ~Compat(u, other) THEN Raise("ValueError")
    ELSE IF r.n # 0 /\ \E i \in 1..BLen(u, other) : ~CrossRepresentable(At(u, i), At(other, i))
    THEN Raise("Unrepresentable")
    ELSE IF \E i \in 1..BLen(u, other) : ~QuadratureDefined(At(u, i), At(other, i), r)
    THEN Raise("NonFinite")
    ELSE Uncertainty_init(
            Map2(LAMBDA a, b : Real(1, IF r.n = 0 THEN RAdd(a.q, b.q)
                                       ELSE QuadratureSquare(a, b, r)), u, other))

\* __mul__ that keeps the sign of the product
mul_signed(u, other) == Map2(XMulR, u, other)

\* __mul__ and __rmul__: Uncertainty(self.u * other)
Uncertainty_mul(u, other) == Uncertainty_init(Map2(XMulR, u, other))

\* __truediv__: Uncertainty(self.u / other)
Uncertainty_truediv(u, other) ==
    IF ~IsErr(other) /\ AnyElem(RIsZero, other) THEN Raise("NonFinite")
    ELSE Uncertainty_init(Map2(XDivR, u, other))

\* __floordiv__: Uncertainty(self.u // other)
Uncertainty_floordiv(u, other) ==
    IF ~IsErr(other) /\ AnyElem(RIsZero, other) THEN Raise("NonFinite")
    ELSE Uncertainty_init(Map2(LAMBDA a, k : OfRat(RInt(XFloor(XDivR(a, k)))), u, other))

\* an in-place numpy operation writes into self.u, whose shape cannot change
InPlace(u, result) ==
    IF IsErr(result) THEN result
    ELSE IF VLen(result) # VLen(u) \/ result.arr # u.arr THEN Raise("ValueError")
    ELSE result

\* __iadd__: self.u = self.add_uncert(other).u
Uncertainty_iadd(u, other) == Uncertainty_add_uncert(u, other, RInt(0))

\* __imul__: self.u *= other
Uncertainty_imul(u, other) == InPlace(u, Map2(XMulR, u, other))

\* __itruediv__: self.u /= other
Uncertainty_itruediv(u, other) ==
    IF ~IsErr(other) /\ AnyElem(RIsZero, other) THEN Raise("NonFinite")
    ELSE InPlace(u, Map2(XDivR, u, other))

\* __ifloordiv__: self.u //= other
Uncertainty_ifloordiv(u, other) ==
    IF ~IsErr(other) /\ AnyElem(RIsZero, other) THEN Raise("NonFinite")
    ELSE InPlace(u, Map2(LAMBDA a, k : OfRat(RInt(XFloor(XDivR(a, k)))), u, other))

(***************************************************************************)
(* class Measurement.  A Measurement is [center, uncert]; uncert says      *)
(* which object the attribute holds:                                       *)
(*   kind "Uncertainty": the Uncertainty object U[ref];                    *)
(*   kind "new":         an Uncertainty made by the call, with magnitude   *)
(*                       val, not yet placed on the heap;                  *)
(*   kind "raw":         a plain value val (only as constructor argument); *)
(*   kind "ndarray":     a numpy array holding val, not an Uncertainty.    *)
(* Uh is the heap of Uncertainty objects the call reads.                   *)
(***************************************************************************)
NoVal == [arr |-> FALSE, v |-> <<>>]

MkRef(id) == [kind |-> "Uncertainty", ref |-> id, val |-> NoVal]

MkNew(val) == IF IsErr(val) THEN val ELSE [kind |-> "new", ref |-> 0, val |-> val]

MkRaw(val) == [kind |-> "raw", ref |-> 0, val |-> val]

MkNdarray(val) == [kind |-> "ndarray", ref |-> 0, val |-> val]

\* the magnitude self.uncert.u
UVal(Uh, uncert) == IF uncert.kind = "Uncertainty" THEN Uh[uncert.ref] ELSE uncert.val

\* operands of the operators: a Measurement or a plain number
NoM == [center |-> NoVal, uncert |-> MkRaw(NoVal)]

OpM(m) == [kind |-> "Measurement", m |-> m, val |-> NoVal]

OpNum(k) == [kind |-> "number", m |-> NoM, val |-> Scalar(k)]

\* an Uncertainty as the operand of an operator
OpU(u) == [kind |-> "Uncertainty", m |-> NoM, val |-> u]

\* add_uncert that turns an operand of another kind into an Uncertainty
add_uncert_coerced(u, other, r) ==
    Uncertainty_add_uncert(u, IF other.kind = "Uncertainty" THEN other.val
                              ELSE Uncertainty_init(Map1(OfRat, other.val)), r)

\* add_uncert, __add__ and __radd__ called with any operand: isinstance first
add_uncert_operand(u, other, r) ==
    IF other.kind # "Uncertainty" THEN Raise("TypeError")
    ELSE Uncertainty_add_uncert(u, other.val, r)

\* __iadd__ called with any operand: self.u = self.add_uncert(other).u
iadd_operand(u, other) == add_uncert_operand(u, other, RInt(0))

\* __init__ without the comparison of the lengths
init_unchecked(Uh, center, uncert) ==
    IF IsErr(center) THEN center
    ELSE IF IsErr(uncert) THEN uncert
    ELSE [center |-> center,
          uncert |-> IF uncert.kind \in {"Uncertainty", "new"} THEN uncert
                     ELSE MkNew(Uncertainty_init(uncert.val))]

\* src/uncert/measurement.py: Measurement.__init__ (full_center and full_uncert
\* replace center and uncert when given; the callers here pass neither)
Measurement_init(Uh, center, uncert) ==
    IF IsErr(center) THEN center
    ELSE IF IsErr(uncert) THEN uncert
    ELSE LET su == IF uncert.kind \in {"Uncertainty", "new"} THEN uncert
                   ELSE MkNew(Uncertainty_init(uncert.val))
             u == UVal(Uh, su)
         IN  IF Uncertainty_is_array_type(u) /\ ~center.arr THEN Raise("TypeError")
             ELSE IF Uncertainty_is_array_type(u) /\ VLen(center) # VLen(u)
             THEN Raise("ValueError")
             ELSE [center |-> center, uncert |-> su]

\* src/measurements.py: Uncertainty.from_simple_list
Uncertainty_from_simple_list(items) == Uncertainty_init(Array(items))

\* src/measurements.py: Measurement.__init__; a raw uncert with a length goes
\* through Uncertainty.from_simple_list
Measurement_init_list(Uh, center, uncert) ==
    IF IsErr(center) THEN center
    ELSE IF IsErr(uncert) THEN uncert
    ELSE LET su == IF uncert.kind \in {"Uncertainty", "new"} THEN uncert
                   ELSE IF uncert.val.arr
                   THEN MkNew(Uncertainty_from_simple_list(uncert.val.v))
                   ELSE MkNew(Uncertainty_init(uncert.val))
             u == UVal(Uh, su)
         IN  IF Uncertainty_is_array_type(u) /\ ~center.arr THEN Raise("TypeError")
             ELSE IF Uncertainty_is_array_type(u) /\ VLen(center) # VLen(u)
             THEN Raise("ValueError")
             ELSE [center |-> center, uncert |-> su]

Measurement_is_array_type(self) == self.center.arr

\* Uncertainty.__iter__: map(lambda x: Uncertainty(x), self.u); a 0-d self.u
\* cannot be iterated
Uncertainty_iter(u) ==
    IF ~u.arr THEN Raise("TypeError")
    ELSE [list |-> [i \in 1..VLen(u) |-> Uncertainty_init(Scalar(u.v[i]))]]

\* Uncertainty.as_simple_list
Uncertainty_as_simple_list(u) ==
    IF ~Uncertainty_is_array_type(u) THEN u ELSE Uncertainty_iter(u)

\* Uncertainty.from_simple_list of a list of Uncertainty objects: x.u of each
from_uncertainty_list(items) ==
    Uncertainty_from_simple_list([i \in 1..Len(items) |-> items[i].v[1]])

\* Measurement.__iter__: Measurement(x[0], x[1]) over zip(self.center, self.uncert)
Measurement_iter(Uh, self) ==
    LET us == Uncertainty_iter(UVal(Uh, self.uncert))
    IN  IF ~self.center.arr \/ IsErr(us) THEN Raise("TypeError")
        ELSE [list |-> [i \in 1..(IF VLen(self.center) < Len(us.list)
                                  THEN VLen(self.center) ELSE Len(us.list)) |->
                           Measurement_init(Uh, Scalar(self.center.v[i]),
                                            MkNew(us.list[i]))]]

\* Measurement.as_simple_list
Measurement_as_simple_list(Uh, self) ==
    IF ~Measurement_is_array_type(self) THEN self ELSE Measurement_iter(Uh, self)

\* Measurement.from_simple_list
Measurement_from_simple_list(Uh, items) ==
    Measurement_init(Uh, Array([i \in 1..Len(items) |-> items[i].center.v[1]]),
                     MkNew(from_uncertainty_list(
                         [i \in 1..Len(items) |-> UVal(Uh, items[i].uncert)])))

\* _check_other_is_us
check_other_is_us(other) == other.kind = "Measurement"

\* Measurement(center, new_uncert) once new_uncert has been computed
after_uncert(Uh, new_uncert, center) ==
    IF IsErr(new_uncert) THEN new_uncert ELSE Measurement_init(Uh, center, MkNew(new_uncert))

Measurement_add_with_correlation(Uh, self, other, r) ==
    IF ~check_other_is_us(other) THEN Raise("TypeError")
    ELSE after_uncert(Uh,
            Uncertainty_add_uncert(UVal(Uh, self.uncert), UVal(Uh, other.m.uncert), r),
            VAdd(self.center, other.m.center))

Measurement_add(Uh, self, other) ==
    IF other.kind = "Measurement"
    THEN Measurement_add_with_correlation(Uh, self, other, RInt(0))
    ELSE Measurement_init(Uh, VAdd(self.center, other.val), self.uncert)

Measurement_radd(Uh, self, other) ==
    Measurement_init(Uh, VAdd(other.val, self.center), self.uncert)

\* sub_with_correlation with the correlation term subtracted
sub_with_negated_correlation(Uh, self, other, r) ==
    IF ~check_other_is_us(other) THEN Raise("TypeError")
    ELSE after_uncert(Uh,
            Uncertainty_add_uncert(UVal(Uh, self.uncert), UVal(Uh, other.m.uncert), RNeg(r)),
            VSub(self.center, other.m.center))

Measurement_sub_with_correlation(Uh, self, other, r) ==
    IF ~check_other_is_us(other) THEN Raise("TypeError")
    ELSE after_uncert(Uh,
            Uncertainty_add_uncert(UVal(Uh, self.uncert), UVal(Uh, other.m.uncert), r),
            VSub(self.center, other.m.center))

Measurement_sub(Uh, self, other) ==
    IF other.kind = "Measurement"
    THEN Measurement_sub_with_correlation(Uh, self, other, RInt(0))
    ELSE Measurement_init(Uh, VSub(self.center, other.val), self.uncert)

\* __rsub__ with the operands in the order of __sub__
rsub_forward(Uh, self, other) ==
    Measurement_init(Uh, VSub(self.center, other.val), self.uncert)

Measurement_rsub(Uh, self, other) ==
    Measurement_init(Uh, VSub(other.val, self.center), self.uncert)

\* (self.uncert/self.center).add_uncert(other.uncert/other.center, r=r)
new_reluncert(Uh, self, other, r) ==
    Uncertainty_add_uncert(Uncertainty_truediv(UVal(Uh, self.uncert), self.center),
                           Uncertainty_truediv(UVal(Uh, other.uncert), other.center), r)

\* Measurement(new_center, new_reluncert * new_center)
scaled(Uh, reluncert, new_center) ==
    IF IsErr(reluncert) THEN reluncert
    ELSE IF IsErr(new_center) THEN new_center
    ELSE Measurement_init(Uh, new_center, MkNew(Uncertainty_mul(reluncert, new_center)))

\* mul_with_correlation that combines the absolute uncertainties
mul_with_absolute_uncert(Uh, self, other, r) ==
    IF ~check_other_is_us(other) THEN Raise("TypeError")
    ELSE scaled(Uh, Uncertainty_add_uncert(UVal(Uh, self.uncert), UVal(Uh, other.m.uncert), r),
                VMul(self.center, other.m.center))

Measurement_mul_with_correlation(Uh, self, other, r) ==
    IF ~check_other_is_us(other) THEN Raise("TypeError")
    ELSE scaled(Uh, new_reluncert(Uh, self, other.m, r), VMul(self.center, other.m.center))

Measurement_mul(Uh, self, other) ==
    IF other.kind = "Measurement"
    THEN Measurement_mul_with_correlation(Uh, self, other, RInt(0))
    ELSE Measurement_init(Uh, VMul(self.center, other.val),
                          MkNew(Uncertainty_mul(UVal(Uh, self.uncert), other.val)))

Measurement_rmul(Uh, self, other) ==
    Measurement_init(Uh, VMul(other.val, self.center),
                     MkNew(Uncertainty_mul(UVal(Uh, self.uncert), other.val)))

\* new_center is computed first
scaled_quotient(Uh, new_center, reluncert) ==
    IF IsErr(new_center) THEN new_center ELSE scaled(Uh, reluncert, new_center)

Measurement_truediv_with_correlation(Uh, self, other, r) ==
    IF ~check_other_is_us(other) THEN Raise("TypeError")
    ELSE scaled_quotient(Uh, VDiv(self.center, other.m.center),
                         new_reluncert(Uh, self, other.m, r))

Measurement_truediv(Uh, self, other) ==
    IF other.kind = "Measurement"
    THEN Measurement_truediv_with_correlation(Uh, self, other, RInt(0))
    ELSE Measurement_init(Uh, VDiv(self.center, other.val),
                          MkNew(Uncertainty_truediv(UVal(Uh, self.uncert), other.val)))

Measurement_rtruediv(Uh, self, other) ==
    scaled_quotient(Uh, VDiv(other.val, self.center),
                    Uncertainty_truediv(UVal(Uh, self.uncert), self.center))

Measurement_abs(Uh, self) == Measurement_init(Uh, VAbs(self.center), self.uncert)

\* float() that takes the first element of any non-empty array
float_of_first(u) == IF VLen(u) = 0 THEN Raise("TypeError") ELSE Scalar(u.v[1])

\* __float__ and __int__ apply float() and int() to self.u: numpy converts an
\* array of one element, of whatever shape, and raises TypeError for any other
\* array
Uncertainty_float(u) == IF VLen(u) # 1 THEN Raise("TypeError") ELSE Scalar(u.v[1])

\* int() of a float truncates towards zero
truncated(x) == OfRat(RInt(IF x.s >= 0 THEN XFloor(x) ELSE -XFloor(XAbs(x))))

Uncertainty_int(u) == IF VLen(u) # 1 THEN Raise("TypeError") ELSE Scalar(truncated(u.v[1]))

\* |c| / m for a center difference c and a magnitude m
score(c, m) == Real(1, RDiv(RMul(c, c), m.q))

IsZeroMag(m) == m.s = 0

\* abs(diff.center) / u, elementwise; a zero magnitude gives inf or nan
score_quotient(center, u) ==
    IF IsErr(u) THEN u
    ELSE IF AnyElem(IsZeroMag, u) THEN Raise("NonFinite")
    ELSE Map2(score, center, u)

\* diff of tscore: sub_with_correlation for a Measurement, self - other else
tscore_diff(Uh, self, other, r) ==
    IF other.kind = "Measurement"
    THEN Measurement_sub_with_correlation(Uh, self, other, r)
    ELSE Measurement_sub(Uh, self, other)

\* src/uncert/measurement.py: return abs(diff.center) / diff.uncert.u
tscore_elementwise(Uh, diff) ==
    IF IsErr(diff) THEN diff ELSE score_quotient(diff.center, UVal(Uh, diff.uncert))

Measurement_tscore(Uh, self, other, r) ==
    tscore_elementwise(Uh, tscore_diff(Uh, self, other, r))

\* src/measurements.py: return abs(diff.center) / float(diff.uncert)
tscore_float(Uh, diff) ==
    IF IsErr(diff) THEN diff
    ELSE score_quotient(diff.center, Uncertainty_float(UVal(Uh, diff.uncert)))

Measurement_tscore_float(Uh, self, other, r) ==
    tscore_float(Uh, tscore_diff(Uh, self, other, r))

\* the ndarray method __<operation>__ on one pair of elements
compare_one(operation, x, y) ==
    CASE operation = "lt" -> RLt(x, y)
      [] operation = "le" -> RLe(x, y)
      [] operation = "eq" -> x = y
      [] operation = "ne" -> x # y
      [] operation = "gt" -> RLt(y, x)
      [] operation = "ge" -> RLe(y, x)

\* getattr(self.center, method_name)(other): an elementwise comparison
compare_centers(operation, x, y) ==
    IF ~Compat(x, y) THEN Raise("ValueError")
    ELSE [arr |-> x.arr \/ y.arr,
          v |-> [i \in 1..BLen(x, y) |-> compare_one(operation, At(x, i), At(y, i))]]

\* _comparison_method: [warns, value]; warns says that warnings.warn is called
Measurement_comparison_method(self, other, operation) ==
    IF other.kind = "Measurement"
    THEN [warns |-> TRUE, value |-> compare_centers(operation, self.center, other.m.center)]
    ELSE [warns |-> FALSE, value |-> compare_centers(operation, self.center, other.val)]

\* _shared_stringify with the center rounded one digit short of the uncertainty
stringify_coarser(center, u) ==
    <<format_rounded(NpRound(OfRat(center), get_significant_digit_one(u) - 1)),
      Uncertainty_str(Scalar(u))>>

\* _shared_stringify: the center and the uncertainty of one element as strings
shared_stringify(center, u) ==
    <<format_rounded(NpRound(OfRat(center), get_significant_digit_one(u))),
      Uncertainty_str(Scalar(u))>>

\* the formatter "{0} ± {1}"
format_pair(strs) == strs[1] \o " ± " \o strs[2]

\* __str__
Measurement_str(Uh, self) ==
    IF Measurement_is_array_type(self)
    THEN "[" \o Join([i \in 1..VLen(self.center) |->
                format_pair(shared_stringify(self.center.v[i],
                                             At(UVal(Uh, self.uncert), i)))]) \o "]"
    ELSE format_pair(shared_stringify(self.center.v[1], UVal(Uh, self.uncert).v[1]))

(***************************************************************************)
(* The mutators of src/uncert/measurement.py.  A mutator yields            *)
(* [err, self, u]: the exception raised ("" for none), the receiver's      *)
(* attributes and the magnitude of the receiver's Uncertainty object after *)
(* the call; a call that raises half-way has changed what it already       *)
(* assigned.  Indices count from 0.                                        *)
(* The methods of class Uncertainty the mutators call (append, extend,     *)
(* __setitem__) belong to uncert/uncertainty.py; they are taken to change  *)
(* the magnitude directly: np.append, np.concatenate and an item           *)
(* assignment on self.u.                                                   *)
(***************************************************************************)
Mutation(err, self, u) == [err |-> err, self |-> self, u |-> u]

\* Uncertainty.append(other): the magnitudes, flattened, one after the other
Uncertainty_append(u, other) == Array(u.v \o other.v)

\* Uncertainty.extend(other): the concatenation of two array magnitudes
Uncertainty_extend(u, other) ==
    IF ~u.arr \/ ~other.arr THEN Raise("ValueError") ELSE Array(u.v \o other.v)

\* Uncertainty.__setitem__(idx, value): self.u[idx] = value
Uncertainty_setitem(u, idx, value) ==
    IF ~u.arr \/ idx >= VLen(u) THEN Raise("IndexError")
    ELSE IF VLen(value) # 1 THEN Raise("ValueError")
    ELSE [u EXCEPT !.v[idx + 1] = XAbs(value.v[1])]

\* the receiver with its center replaced, and what the call on self.uncert did
uncert_call(self, u, center, result) ==
    IF IsErr(result) THEN Mutation(result.err, [self EXCEPT !.center = center], u)
    ELSE Mutation("", [self EXCEPT !.center = center], result)

\* append without the check of the argument
append_unchecked(Uh, self, other) ==
    IF ~Measurement_is_array_type(self)
    THEN Mutation("ValueError", self, UVal(Uh, self.uncert))
    ELSE uncert_call(self, UVal(Uh, self.uncert), Array(self.center.v \o other.center.v),
                     Uncertainty_append(UVal(Uh, self.uncert), UVal(Uh, other.uncert)))

Measurement_append(Uh, self, other) ==
    IF ~Measurement_is_array_type(self)
    THEN Mutation("ValueError", self, UVal(Uh, self.uncert))
    ELSE IF Measurement_is_array_type(other)
    THEN Mutation("ValueError", self, UVal(Uh, self.uncert))
    ELSE uncert_call(self, UVal(Uh, self.uncert), Array(self.center.v \o other.center.v),
                     Uncertainty_append(UVal(Uh, self.uncert), UVal(Uh, other.uncert)))

Measurement_extend(Uh, self, other) ==
    IF ~Measurement_is_array_type(self)
    THEN Mutation("ValueError", self, UVal(Uh, self.uncert))
    ELSE IF ~Measurement_is_array_type(other)
    THEN Mutation("ValueError", self, UVal(Uh, self.uncert))
    ELSE uncert_call(self, UVal(Uh, self.uncert), Array(self.center.v \o other.center.v),
                     IF Uncertainty_is_array_type(UVal(Uh, self.uncert))
                     THEN Uncertainty_extend(UVal(Uh, self.uncert), UVal(Uh, other.uncert))
                     ELSE Uncertainty_append(UVal(Uh, self.uncert), UVal(Uh, other.uncert)))

\* __setitem__ with a Measurement value
Measurement_setitem(Uh, self, idx, value) ==
    IF ~Measurement_is_array_type(self) \/ idx >= VLen(self.center)
    THEN Mutation("IndexError", self, UVal(Uh, self.uncert))
    ELSE IF VLen(value.center) # 1
    THEN Mutation("ValueError", self, UVal(Uh, self.uncert))
    ELSE uncert_call(self, UVal(Uh, self.uncert),
                     [self.center EXCEPT !.v[idx + 1] = value.center.v[1]],
                     Uncertainty_setitem(UVal(Uh, self.uncert), idx, UVal(Uh, value.uncert)))

\* a sequence without its element idx
Delete(xs, idx) == [i \in 1..(Len(xs) - 1) |-> IF i <= idx THEN xs[i] ELSE xs[i + 1]]

\* np.delete(self.uncert, idx) returns an ndarray.  numpy has to read the
\* Uncertainty as a sequence (when it has a length) or as a single object; the
\* source does not settle whether that conversion succeeds, so both outcomes
\* are possible: converts says which.  An index past the end raises.
delete_uncert(u, idx, converts) ==
    IF ~converts THEN Raise("TypeError")
    ELSE IF idx >= VLen(u) THEN Raise("IndexError")
    ELSE MkNdarray(Array(Delete(u.v, idx)))

\* self.uncert = np.delete(self.uncert, idx), after self.center was assigned
assign_deleted(self, u, center, deleted) ==
    IF IsErr(deleted) THEN Mutation(deleted.err, [self EXCEPT !.center = center], u)
    ELSE Mutation("", [center |-> center, uncert |-> deleted], u)

\* __delitem__
Measurement_delitem(Uh, self, idx, converts) ==
    IF idx >= VLen(self.center) THEN Mutation("IndexError", self, UVal(Uh, self.uncert))
    ELSE assign_deleted(self, UVal(Uh, self.uncert), Array(Delete(self.center.v, idx)),
                        delete_uncert(UVal(Uh, self.uncert), idx, converts))

(***************************************************************************)
(* The record of the last call: the operation, the receiver and the other  *)
(* operand (object ids, 0 for none), the exception raised ("" for none),   *)
(* the id of the object returned (0 for none) and, in out, the plain       *)
(* values returned; args holds the plain numbers passed.                   *)
(***************************************************************************)
NoCall ==
    [op |-> "", self |-> 0, other |-> 0, args |-> <<>>, err |-> "", res |-> 0, out |-> <<>>]

Call(op, self, other, args, err, res, out) ==
    [op |-> op, self |-> self, other |-> other, args |-> args,
     err |-> err, res |-> res, out |-> out]

\* warnings.warn(message) under the default filters of Python: a UserWarning
\* is shown the first time it is issued from a call site and recorded in the
\* registry; a warning already recorded there is dropped
shown(site, reg) == site \notin reg

\* the call sites of warnings.warn in __floordiv__ and __ifloordiv__
warned_by(op) ==
    IF op \in {"__floordiv__", "__ifloordiv__"} THEN {op} ELSE {}

\* results that are no float64 the model can hold: the actions leave them out
OutsideModel(x) == IsErr(x) /\ x.err \in {"NonFinite", "Unrepresentable"}

(***************************************************************************)
(* The significant-digit selector and Uncertainty.__str__ on one           *)
(* Uncertainty object.                                                     *)
(***************************************************************************)
MaxMant == 130

MaxExp == 2

MaxSurd == 30

\* the magnitudes of the docstring of Uncertainty
DocMagnitudes ==
    {Rat(9123, 1), Rat(11243, 10000), Rat(104, 1000), Rat(198, 1000), Rat(196, 100)}

DigitMagnitudes ==
    {OfRat(x) : x \in DocMagnitudes}
        \cup {OfRat(Rat(m * 15, Pow10(e))) : m \in 0..MaxMant, e \in 0..MaxExp}
        \cup {OfRat(Rat(m, Pow10(e))) : m \in 0..MaxMant, e \in 0..MaxExp}
        \cup {OfRat(RInt(m * Pow10(e))) : m \in 1..MaxMant, e \in 1..MaxExp}
        \cup {Real(1, Rat(j, Pow10(e))) : j \in 1..MaxSurd, e \in 0..MaxExp}

InitDigit ==
    /\ \E m \in DigitMagnitudes : U = <<Uncertainty_init(Scalar(m))>>
    /\ M = <<>>
    /\ origin = <<>>
    /\ last = NoCall
    /\ steps = 0
    /\ registry = {}

CallGetSignificantDigit ==
    /\ last' = Call("get_significant_digit", 1, 0, <<>>, "", 0,
                    <<Uncertainty_get_significant_digit(U[1]).v[1]>>)
    /\ UNCHANGED <<U, M, origin, steps, registry>>

CallStr ==
    /\ last' = Call("__str__", 1, 0, <<>>, "", 0, <<Uncertainty_str(U[1])>>)
    /\ UNCHANGED <<U, M, origin, steps, registry>>

\* round_uncert(m) of the magnitude of U[1]
CallRoundUncert ==
    /\ last' = LET result == round_uncert(U[1].v[1])
               IN  IF IsErr(result)
                   THEN Call("round_uncert", 1, 0, <<>>, result.err, 0, <<>>)
                   ELSE Call("round_uncert", 1, 0, <<>>, "", 0,
                             <<result.rounded, result.digits>>)
    /\ UNCHANGED <<U, M, origin, steps, registry>>

NextDigit == CallGetSignificantDigit \/ CallStr \/ CallRoundUncert

SpecDigit == InitDigit /\ [][NextDigit]_vars

\* the leading digit of the rounded magnitude; NumDigits counts the digits from
\* it down to the last digit kept
RECURSIVE LeadDigit(_)
LeadDigit(k) == IF k < 10 THEN k ELSE LeadDigit(k \div 10)

\* C1: for a non-zero magnitude m the selector returns n such that m rounded
\* to n fractional digits has one significant digit, or two when the leading
\* digit is 1; the magnitudes of the docstring format as documented.
C1_SignificantDigits ==
    LET m == U[1].v[1]
    IN  /\ (last.op = "get_significant_digit" /\ m.s # 0) =>
              LET k == NpRound(m, last.out[1]).k
              IN  /\ k > 0
                  /\ NumDigits(k) = (IF LeadDigit(k) = 1 THEN 2 ELSE 1)
        /\ last.op = "__str__" =>
              /\ m = OfRat(Rat(9123, 1)) => last.out[1] = "9000"
              /\ m = OfRat(Rat(11243, 10000)) => last.out[1] = "1.1"
              /\ m = OfRat(Rat(104, 1000)) => last.out[1] = "0.10"
              /\ m = OfRat(Rat(198, 1000)) => last.out[1] = "0.2"
              /\ m = OfRat(Rat(196, 100)) => last.out[1] = "2"

\* a magnitude with leading digit 1 whose extra digit is dropped after the carry
C1_Witness ==
    /\ last.op = "__str__"
    /\ U[1].v[1] = OfRat(Rat(196, 100))
    /\ last.out[1] = "2"

(***************************************************************************)
(* Uncertainty objects under their constructor and operators.              *)
(***************************************************************************)
MaxU == 3

MaxSteps == 3

\* the plain numbers handed to the program
Numbers == {Rat(-2, 1), Rat(-1, 2), RInt(0), Rat(3, 2), RInt(4)}

Correlations == {RInt(-1), RInt(0), Rat(1, 2), RInt(1)}

RawValues ==
    {Scalar(OfRat(x)) : x \in Numbers}
        \cup {Array(<<OfRat(x), OfRat(y)>>) : x \in {Rat(-2, 1), RInt(4)}, y \in {RInt(0), Rat(3, 2)}}
        \cup {Array(<<OfRat(Rat(3, 2))>>)}

InitUncert ==
    /\ U = <<>>
    /\ M = <<>>
    /\ origin = <<>>
    /\ last = NoCall
    /\ steps = 0
    /\ registry = {}

\* the call returned a new Uncertainty, or raised
UReturn(op, self, other, args, result) ==
    /\ steps < MaxSteps
    /\ ~OutsideModel(result)
    /\ steps' = steps + 1
    /\ registry' = registry \cup warned_by(op)
    /\ UNCHANGED <<M, origin>>
    /\ IF IsErr(result)
       THEN /\ last' = Call(op, self, other, args, result.err, 0, <<>>)
            /\ UNCHANGED U
       ELSE /\ Len(U) < MaxU
            /\ U' = Append(U, result)
            /\ last' = Call(op, self, other, args, "", Len(U) + 1, <<>>)

\* the call assigned self.u, or raised
UAssign(op, self, other, args, result) ==
    /\ steps < MaxSteps
    /\ ~OutsideModel(result)
    /\ steps' = steps + 1
    /\ registry' = registry \cup warned_by(op)
    /\ UNCHANGED <<M, origin>>
    /\ IF IsErr(result)
       THEN /\ last' = Call(op, self, other, args, result.err, 0, <<>>)
            /\ UNCHANGED U
       ELSE /\ U' = [U EXCEPT ![self] = result]
            /\ last' = Call(op, self, other, args, "", self, <<>>)

UNew == \E x \in RawValues : UReturn("Uncertainty", 0, 0, <<>>, Uncertainty_init(x))

UAddUncert ==
    \E a \in 1..Len(U), b \in 1..Len(U), r \in Correlations :
        UReturn("add_uncert", a, b, <<r>>, Uncertainty_add_uncert(U[a], U[b], r))

\* __add__ and __radd__: self.add_uncert(other)
UAdd ==
    \E a \in 1..Len(U), b \in 1..Len(U) :
        UReturn("__add__", a, b, <<>>, Uncertainty_add_uncert(U[a], U[b], RInt(0)))

UMul ==
    \E a \in 1..Len(U), k \in Numbers :
        UReturn("__mul__", a, 0, <<k>>, Uncertainty_mul(U[a], Scalar(k)))

UTruediv ==
    \E a \in 1..Len(U), k \in Numbers :
        UReturn("__truediv__", a, 0, <<k>>, Uncertainty_truediv(U[a], Scalar(k)))

UFloordiv ==
    \E a \in 1..Len(U), k \in Numbers :
        UReturn("__floordiv__", a, 0, <<k>>, Uncertainty_floordiv(U[a], Scalar(k)))

UIadd ==
    \E a \in 1..Len(U), b \in 1..Len(U) :
        UAssign("__iadd__", a, b, <<>>, Uncertainty_iadd(U[a], U[b]))

UImul ==
    \E a \in 1..Len(U), k \in Numbers :
        UAssign("__imul__", a, 0, <<k>>, Uncertainty_imul(U[a], Scalar(k)))

UItruediv ==
    \E a \in 1..Len(U), k \in Numbers :
        UAssign("__itruediv__", a, 0, <<k>>, Uncertainty_itruediv(U[a], Scalar(k)))

UIfloordiv ==
    \E a \in 1..Len(U), k \in Numbers :
        UAssign("__ifloordiv__", a, 0, <<k>>, Uncertainty_ifloordiv(U[a], Scalar(k)))

\* the call returned the plain number `result`, or raised
UConvert(op, self, result) ==
    /\ steps < MaxSteps
    /\ steps' = steps + 1
    /\ last' = IF IsErr(result)
               THEN Call(op, self, 0, <<>>, result.err, 0, <<>>)
               ELSE Call(op, self, 0, <<>>, "", 0, <<result>>)
    /\ UNCHANGED <<U, M, origin, registry>>

UFloat == \E a \in 1..Len(U) : UConvert("__float__", a, Uncertainty_float(U[a]))

UInt == \E a \in 1..Len(U) : UConvert("__int__", a, Uncertainty_int(U[a]))

NextUncert ==
    \/ UNew
    \/ UAddUncert
    \/ UAdd
    \/ UMul
    \/ UTruediv
    \/ UFloordiv
    \/ UIadd
    \/ UImul
    \/ UItruediv
    \/ UIfloordiv
    \/ UFloat
    \/ UInt

SpecUncert == InitUncert /\ [][NextUncert]_vars

\* C2: every element of the magnitude of every Uncertainty is >= 0, after
\* construction and after any sequence of add_uncert, +, *, /, // and their
\* in-place forms with any scalar operand.
C2_MagnitudeNonNegative ==
    \A i \in 1..Len(U) : \A j \in 1..VLen(U[i]) : XGeZero(U[i].v[j])

(***************************************************************************)
(* Measurements on the heap.  M[1] is a Measurement the caller has         *)
(* constructed; every call that returns a Measurement puts it on the heap, *)
(* with its Uncertainty object when that is a new one, and origin says     *)
(* from which Measurements it was computed.  The mutators take a new       *)
(* Measurement as their argument.  A Measurement whose uncert has become   *)
(* an ndarray is not used any further.                                     *)
(***************************************************************************)
MaxM == 2

MaxCalls == 2

MaxLen == 3

HeapCenters == {Scalar(RInt(1)), Array(<<RInt(1)>>), Array(<<RInt(1), RInt(2)>>)}

HeapUncerts == {Scalar(OfRat(Rat(1, 2))), Array(<<OfRat(Rat(1, 2)), OfRat(RInt(1))>>)}

\* the Measurements passed to the mutators
Arguments ==
    { [center |-> Scalar(RInt(3)), uncert |-> MkNew(Scalar(OfRat(Rat(3, 2))))],
      [center |-> Array(<<RInt(3)>>), uncert |-> MkNew(Scalar(OfRat(Rat(3, 2))))],
      [center |-> Array(<<RInt(3)>>), uncert |-> MkNew(Array(<<OfRat(Rat(3, 2))>>))] }

\* the plain number passed to the operators
HeapNumber == Rat(-2, 1)

Init ==
    /\ \E c \in HeapCenters, u \in HeapUncerts :
          /\ ~IsErr(Measurement_init(<<>>, c, MkRaw(u)))
          /\ U = <<Uncertainty_init(u)>>
          /\ M = <<[center |-> c, uncert |-> MkRef(1)]>>
    /\ origin = <<{}>>
    /\ last = NoCall
    /\ steps = 0
    /\ registry = {}

Usable(id) == M[id].uncert.kind = "Uncertainty"

Step == steps < MaxCalls /\ steps' = steps + 1

\* a call on M[a] (and M[b], 0 for none) that returns the Measurement `result`
\* or raises; a result holding a new Uncertainty puts that on the heap too
MReturn(op, a, b, args, result) ==
    /\ Step
    /\ Usable(a)
    /\ ~OutsideModel(result)
    /\ UNCHANGED registry
    /\ IF IsErr(result)
       THEN /\ last' = Call(op, a, b, args, result.err, 0, <<>>)
            /\ UNCHANGED <<U, M, origin>>
       ELSE /\ Len(M) < MaxM
            /\ last' = Call(op, a, b, args, "", Len(M) + 1, <<>>)
            /\ origin' = Append(origin, ({a, b} \ {0}) \cup origin[a]
                                            \cup (IF b = 0 THEN {} ELSE origin[b]))
            /\ IF result.uncert.kind = "Uncertainty"
               THEN /\ M' = Append(M, result)
                    /\ UNCHANGED U
               ELSE /\ Len(U) < MaxU
                    /\ U' = Append(U, result.uncert.val)
                    /\ M' = Append(M, [center |-> result.center,
                                       uncert |-> MkRef(Len(U) + 1)])

\* a mutator called on M[a]
MMutate(op, a, args, m) ==
    /\ Step
    /\ Usable(a)
    /\ VLen(m.self.center) <= MaxLen
    /\ last' = Call(op, a, 0, args, m.err, 0, <<>>)
    /\ M' = [M EXCEPT ![a] = m.self]
    /\ U' = [U EXCEPT ![M[a].uncert.ref] = m.u]
    /\ UNCHANGED <<origin, registry>>

MDelitem ==
    \E a \in 1..Len(M), idx \in 0..(MaxLen - 1), converts \in BOOLEAN :
        MMutate("__delitem__", a, <<idx>>, Measurement_delitem(U, M[a], idx, converts))

MAppend ==
    \E a \in 1..Len(M), other \in Arguments :
        MMutate("append", a, <<other>>, Measurement_append(U, M[a], other))

MExtend ==
    \E a \in 1..Len(M), other \in Arguments :
        MMutate("extend", a, <<other>>, Measurement_extend(U, M[a], other))

MSetitem ==
    \E a \in 1..Len(M), idx \in 0..(MaxLen - 1), value \in Arguments :
        MMutate("__setitem__", a, <<idx, value>>, Measurement_setitem(U, M[a], idx, value))

\* M[a].uncert *= k
MUncertImul ==
    \E a \in 1..Len(M) :
        /\ Step
        /\ Usable(a)
        /\ ~IsErr(Uncertainty_imul(UVal(U, M[a].uncert), Scalar(HeapNumber)))
        /\ U' = [U EXCEPT ![M[a].uncert.ref] =
                              Uncertainty_imul(UVal(U, M[a].uncert), Scalar(HeapNumber))]
        /\ last' = Call("uncert.__imul__", a, 0, <<HeapNumber>>, "", 0, <<>>)
        /\ UNCHANGED <<M, origin, registry>>

MAddNumber ==
    \E a \in 1..Len(M) :
        MReturn("__add__", a, 0, <<HeapNumber>>, Measurement_add(U, M[a], OpNum(HeapNumber)))

MRaddNumber ==
    \E a \in 1..Len(M) :
        MReturn("__radd__", a, 0, <<HeapNumber>>, Measurement_radd(U, M[a], OpNum(HeapNumber)))

MSubNumber ==
    \E a \in 1..Len(M) :
        MReturn("__sub__", a, 0, <<HeapNumber>>, Measurement_sub(U, M[a], OpNum(HeapNumber)))

MRsubNumber ==
    \E a \in 1..Len(M) :
        MReturn("__rsub__", a, 0, <<HeapNumber>>, Measurement_rsub(U, M[a], OpNum(HeapNumber)))

MAbs == \E a \in 1..Len(M) : MReturn("__abs__", a, 0, <<>>, Measurement_abs(U, M[a]))

MMulNumber ==
    \E a \in 1..Len(M) :
        MReturn("__mul__", a, 0, <<HeapNumber>>, Measurement_mul(U, M[a], OpNum(HeapNumber)))

MTruedivNumber ==
    \E a \in 1..Len(M) :
        MReturn("__truediv__", a, 0, <<HeapNumber>>,
                Measurement_truediv(U, M[a], OpNum(HeapNumber)))

MAdd ==
    \E a \in 1..Len(M), b \in 1..Len(M) :
        Usable(b) /\ MReturn("__add__", a, b, <<>>, Measurement_add(U, M[a], OpM(M[b])))

MMul ==
    \E a \in 1..Len(M), b \in 1..Len(M) :
        Usable(b) /\ MReturn("__mul__", a, b, <<>>, Measurement_mul(U, M[a], OpM(M[b])))

Next ==
    \/ MDelitem
    \/ MAppend
    \/ MExtend
    \/ MSetitem
    \/ MUncertImul
    \/ MAddNumber
    \/ MRaddNumber
    \/ MSubNumber
    \/ MRsubNumber
    \/ MAbs
    \/ MMulNumber
    \/ MTruedivNumber
    \/ MAdd
    \/ MMul

Spec == Init /\ [][Next]_vars

\* the data-model invariant of the Measurement m on the heap Uh
DataModel(Uh, m) ==
    /\ m.uncert.kind = "Uncertainty"
    /\ Uncertainty_is_array_type(Uh[m.uncert.ref]) =>
          /\ Measurement_is_array_type(m)
          /\ VLen(m.center) = VLen(Uh[m.uncert.ref])

\* C3: append, extend, indexed set and indexed delete, applied to an array-form
\* Measurement that satisfies the data-model invariant, leave it satisfying the
\* invariant: uncert is an Uncertainty and, when that is array-form,
\* len(center) = len(uncert).
C3_DataModelPreserved ==
    [][(/\ steps' = steps + 1
        /\ last'.op \in {"append", "extend", "__setitem__", "__delitem__"}
        /\ Measurement_is_array_type(M[last'.self])
        /\ DataModel(U, M[last'.self]))
          => DataModel(U', M'[last'.self])]_vars

\* what a caller sees of M[i]: its center and the magnitude of its uncertainty
MValue(i) == <<M[i].center, UVal(U, M[i].uncert)>>

Arithmetic ==
    {"__add__", "__radd__", "__sub__", "__rsub__", "__abs__", "__mul__", "__truediv__"}

Mutators == {"append", "extend", "__setitem__", "__delitem__", "uncert.__imul__"}

\* C4: arithmetic changes no Measurement, and a mutator applied to a
\* Measurement b changes no Measurement that b was computed from.
C4_NoSharedState ==
    [][/\ last'.op \in Arithmetic =>
             \A i \in 1..Len(M) : MValue(i)' = MValue(i)
       /\ last'.op \in Mutators =>
             \A a \in origin[last'.self] \ {last'.self} : MValue(a)' = MValue(a)]_vars

\* the receiver and the argument of a call of append or extend do not fit
ShapeViolation(op, self, other) ==
    \/ ~Measurement_is_array_type(self)
    \/ op = "append" /\ Measurement_is_array_type(other)
    \/ op = "extend" /\ ~Measurement_is_array_type(other)

\* C6: append with an array-form argument, extend with a scalar-form argument
\* and append or extend on a scalar-form receiver raise ValueError and leave
\* the receiver's center and uncert as they were.
C6_FailedGrowthKeepsReceiver ==
    [][(/\ steps' = steps + 1
        /\ last'.op \in {"append", "extend"}
        /\ ShapeViolation(last'.op, M[last'.self], last'.args[1]))
          => /\ last'.err = "ValueError"
             /\ M'[last'.self] = M[last'.self]
             /\ U' = U]_vars

C6_Witness ==
    /\ last.op = "append"
    /\ last.err = "ValueError"
    /\ Measurement_is_array_type(M[last.self])
    /\ Measurement_is_array_type(last.args[1])
    /\ VLen(M[last.self].center) = 2

(***************************************************************************)
(* The constructors: Measurement(center, uncert) of src/measurements.py    *)
(* and of src/uncert/measurement.py, called once with a center and a raw   *)
(* uncertainty of every shape.                                             *)
(***************************************************************************)
CenterOfLen(n) == Array([i \in 1..n |-> RInt(i)])

UncertOfLen(n) == Array([i \in 1..n |-> OfRat(Rat(i, 2))])

InitCenters ==
    {Scalar(RInt(2)), Scalar(Rat(-3, 1))}
        \cup {CenterOfLen(n) : n \in 0..MaxLen}
        \cup {VAbs(CenterOfLen(n)) : n \in 0..MaxLen}
        \cup {Map1(RNeg, CenterOfLen(n)) : n \in 1..MaxLen}

InitUncerts ==
    {Scalar(OfRat(Rat(1, 2))), Scalar(OfRat(Rat(-1, 2))), Scalar(OfRat(RInt(0)))}
        \cup {UncertOfLen(n) : n \in 0..MaxLen}
        \cup {Map1(XNeg, UncertOfLen(n)) : n \in 1..MaxLen}

InitEmpty ==
    /\ U = <<>>
    /\ M = <<>>
    /\ origin = <<>>
    /\ last = NoCall
    /\ steps = 0
    /\ registry = {}

\* the constructor returned `result`, a Measurement with a new Uncertainty, or raised
Constructed(op, center, uncert, result) ==
    /\ last = NoCall
    /\ IF IsErr(result)
       THEN /\ last' = Call(op, 0, 0, <<center, uncert>>, result.err, 0, <<>>)
            /\ UNCHANGED <<U, M, origin>>
       ELSE /\ last' = Call(op, 0, 0, <<center, uncert>>, "", 1, <<>>)
            /\ U' = <<result.uncert.val>>
            /\ M' = <<[center |-> result.center, uncert |-> MkRef(1)]>>
            /\ origin' = <<{}>>
    /\ UNCHANGED <<steps, registry>>

\* src/uncert/measurement.py
MNew ==
    \E center \in InitCenters, uncert \in InitUncerts :
        Constructed("uncert.Measurement", center, uncert,
                    Measurement_init(U, center, MkRaw(uncert)))

\* src/measurements.py
MNewList ==
    \E center \in InitCenters, uncert \in InitUncerts :
        Constructed("measurements.Measurement", center, uncert,
                    Measurement_init_list(U, center, MkRaw(uncert)))

Constructors == {"uncert.Measurement", "measurements.Measurement"}

\* x.as_simple_list() of the object just constructed returned `result` or raised
Listed(op, result) ==
    /\ last.op \in Constructors
    /\ last.err = ""
    /\ last' = IF IsErr(result)
               THEN Call(op, 1, 0, <<>>, result.err, 0, <<>>)
               ELSE Call(op, 1, 0, <<>>, "", 0, <<result>>)
    /\ UNCHANGED <<U, M, origin, steps, registry>>

MAsSimpleList ==
    Listed("Measurement.as_simple_list", Measurement_as_simple_list(U, M[1]))

UAsSimpleList ==
    Listed("Uncertainty.as_simple_list", Uncertainty_as_simple_list(U[1]))

\* cls.from_simple_list(items) of the list as_simple_list has just returned
Rebuilt(op, from, result) ==
    /\ last.op = from
    /\ last.err = ""
    /\ "list" \in DOMAIN last.out[1]
    /\ last' = IF IsErr(result)
               THEN Call(op, 0, 0, last.out, result.err, 0, <<>>)
               ELSE Call(op, 0, 0, last.out, "", 0, <<result>>)
    /\ UNCHANGED <<U, M, origin, steps, registry>>

MFromSimpleList ==
    Rebuilt("Measurement.from_simple_list", "Measurement.as_simple_list",
            Measurement_from_simple_list(U, last.out[1].list))

UFromSimpleList ==
    Rebuilt("Uncertainty.from_simple_list", "Uncertainty.as_simple_list",
            from_uncertainty_list(last.out[1].list))

NextInit ==
    \/ MNew
    \/ MNewList
    \/ MAsSimpleList
    \/ UAsSimpleList
    \/ MFromSimpleList
    \/ UFromSimpleList

SpecInit == InitEmpty /\ [][NextInit]_vars

\* C5: a constructor given an array-form uncertainty whose length differs
\* from the length of the center raises ValueError and constructs nothing;
\* given an array-form center and a scalar-form uncertainty it succeeds, for
\* every length of the center.
C5_ConstructorShapes ==
    last.op \in {"uncert.Measurement", "measurements.Measurement"} =>
        /\ (/\ Measurement_is_array_type([center |-> last.args[1]])
            /\ Uncertainty_is_array_type(last.args[2])
            /\ VLen(last.args[1]) # VLen(last.args[2]))
              => last.err = "ValueError" /\ M = <<>>
        /\ (/\ Measurement_is_array_type([center |-> last.args[1]])
            /\ ~Uncertainty_is_array_type(last.args[2]))
              => /\ last.err = ""
                 /\ M[1].center = last.args[1]
                 /\ U[1] = Scalar(XAbs(last.args[2].v[1]))

C5_Witness ==
    /\ last.op = "uncert.Measurement"
    /\ last.err = "ValueError"
    /\ VLen(last.args[1]) = 3
    /\ VLen(last.args[2]) = 2

(***************************************************************************)
(* The arithmetic of two Measurements a = M[1] and b = M[2] and of their   *)
(* Uncertainty objects U[1] and U[2]: one call on given operands.  The     *)
(* value returned is put in out together with its str().                   *)
(***************************************************************************)
\* the Measurements of the docstrings
DocMeasurements ==
    { <<Scalar(Rat(1012, 100)), Scalar(OfRat(Rat(1999, 1000)))>>,
      <<Scalar(RInt(20)), Scalar(OfRat(Rat(31, 10)))>>,
      <<Scalar(RInt(20)), Scalar(OfRat(Rat(11, 10)))>>,
      <<Scalar(RInt(10)), Scalar(OfRat(RInt(1)))>>,
      <<Scalar(RInt(11)), Scalar(OfRat(RInt(1)))>> }

ArithCenters == {Rat(-3, 1), RInt(0), Rat(1, 2), RInt(2)}

ArithUncerts == {RInt(0), Rat(1, 2), RInt(3), RInt(4)}

ArithMeasurements ==
    DocMeasurements
        \cup {<<Scalar(c), Scalar(OfRat(u))>> : c \in ArithCenters, u \in ArithUncerts}
        \cup {<<Array(<<c, RInt(2)>>), Scalar(OfRat(u))>> :
                c \in {Rat(-3, 1), Rat(1, 2)}, u \in {Rat(1, 2), RInt(3)}}
        \cup {<<Array(<<c, RInt(2)>>), Array(<<OfRat(u), OfRat(RInt(4))>>)>> :
                c \in {Rat(-3, 1), Rat(1, 2)}, u \in {Rat(1, 2), RInt(3)}}
        \cup {<<Array(<<RInt(2), Rat(1, 2), Rat(-3, 1)>>), Scalar(OfRat(RInt(3)))>>}

InitArith ==
    /\ \E a \in ArithMeasurements, b \in ArithMeasurements :
          /\ U = <<a[2], b[2]>>
          /\ M = <<[center |-> a[1], uncert |-> MkRef(1)],
                   [center |-> b[1], uncert |-> MkRef(2)]>>
    /\ origin = <<>>
    /\ last = NoCall
    /\ steps = 0
    /\ registry = {}

\* a call on M[1] (and M[2]) that returns the Measurement `result`, or raises
ACall(op, args, result, text) ==
    /\ last = NoCall
    /\ ~OutsideModel(result)
    /\ last' = IF IsErr(result)
               THEN Call(op, 1, 2, args, result.err, 0, <<>>)
               ELSE Call(op, 1, 2, args, "", 0, <<result, text>>)
    /\ UNCHANGED <<U, M, origin, steps, registry>>

\* a call on U[1] and U[2] that returns Uncertainty magnitudes, or raises
AUCall(op, args, result, reversed) ==
    /\ last = NoCall
    /\ ~OutsideModel(result)
    /\ ~OutsideModel(reversed)
    /\ last' = IF IsErr(result)
               THEN Call(op, 1, 2, args, result.err, 0, <<>>)
               ELSE Call(op, 1, 2, args, "", 0, <<result, reversed>>)
    /\ UNCHANGED <<U, M, origin, steps, registry>>

AAddWithCorrelation ==
    \E r \in Correlations :
        ACall("add_with_correlation", <<r>>,
              Measurement_add_with_correlation(U, M[1], OpM(M[2]), r), "")

ASubWithCorrelation ==
    \E r \in Correlations :
        ACall("sub_with_correlation", <<r>>,
              Measurement_sub_with_correlation(U, M[1], OpM(M[2]), r), "")

AMulWithCorrelation ==
    \E r \in Correlations :
        ACall("mul_with_correlation", <<r>>,
              Measurement_mul_with_correlation(U, M[1], OpM(M[2]), r), "")

ATruedivWithCorrelation ==
    \E r \in Correlations :
        ACall("truediv_with_correlation", <<r>>,
              Measurement_truediv_with_correlation(U, M[1], OpM(M[2]), r), "")

\* str() of a returned Measurement
result_str(result) == IF IsErr(result) THEN "" ELSE Measurement_str(U, result)

AAdd ==
    ACall("__add__", <<>>, Measurement_add(U, M[1], OpM(M[2])),
          result_str(Measurement_add(U, M[1], OpM(M[2]))))

ASub == ACall("__sub__", <<>>, Measurement_sub(U, M[1], OpM(M[2])), "")

AMul ==
    ACall("__mul__", <<>>, Measurement_mul(U, M[1], OpM(M[2])),
          result_str(Measurement_mul(U, M[1], OpM(M[2]))))

ATruediv == ACall("__truediv__", <<>>, Measurement_truediv(U, M[1], OpM(M[2])), "")

AAddNumber ==
    \E k \in Numbers : ACall("__add__ number", <<k>>, Measurement_add(U, M[1], OpNum(k)), "")

ASubNumber ==
    \E k \in Numbers : ACall("__sub__ number", <<k>>, Measurement_sub(U, M[1], OpNum(k)), "")

AMulNumber ==
    \E k \in Numbers : ACall("__mul__ number", <<k>>, Measurement_mul(U, M[1], OpNum(k)), "")

ATruedivNumber ==
    \E k \in Numbers :
        ACall("__truediv__ number", <<k>>, Measurement_truediv(U, M[1], OpNum(k)), "")

\* the reflected operators: the plain number k is the left operand
ARaddNumber ==
    \E k \in Numbers : ACall("__radd__ number", <<k>>, Measurement_radd(U, M[1], OpNum(k)), "")

ARsubNumber ==
    \E k \in Numbers : ACall("__rsub__ number", <<k>>, Measurement_rsub(U, M[1], OpNum(k)), "")

ARmulNumber ==
    \E k \in Numbers : ACall("__rmul__ number", <<k>>, Measurement_rmul(U, M[1], OpNum(k)), "")

ARtruedivNumber ==
    \E k \in Numbers :
        ACall("__rtruediv__ number", <<k>>, Measurement_rtruediv(U, M[1], OpNum(k)), "")

\* the plain numbers passed to tscore: 11 is the one of the docstring
TscoreNumbers == Numbers \cup {RInt(11)}

\* tscore of src/uncert/measurement.py
ATscore ==
    \E r \in Correlations :
        ACall("uncert.tscore", <<r>>, Measurement_tscore(U, M[1], OpM(M[2]), r), "")

ATscoreNumber ==
    \E k \in TscoreNumbers :
        ACall("uncert.tscore number", <<k>>,
              Measurement_tscore(U, M[1], OpNum(k), RInt(0)), "")

\* tscore of src/measurements.py
ATscoreFloat ==
    \E r \in Correlations :
        ACall("measurements.tscore", <<r>>,
              Measurement_tscore_float(U, M[1], OpM(M[2]), r), "")

ATscoreFloatNumber ==
    \E k \in TscoreNumbers :
        ACall("measurements.tscore number", <<k>>,
              Measurement_tscore_float(U, M[1], OpNum(k), RInt(0)), "")

\* __lt__, __le__, __eq__, __ne__, __gt__ and __ge__
Operations == {"lt", "le", "eq", "ne", "gt", "ge"}

\* the right operands of the comparisons: the Measurement M[2] or a number
CompareOperands == {OpM(M[2]), OpNum(RInt(2))}

\* a comparison returned `result.value`; the caller has seen its warning if
\* one was issued and shown
Compared(operation, other, result) ==
    /\ last = NoCall \/ last.op \in Operations
    /\ ~IsErr(result.value)
    /\ last' = Call(operation, 1, IF other.kind = "Measurement" THEN 2 ELSE 0, <<>>, "", 0,
                    <<result.value, result.warns /\ shown("_comparison_method", registry)>>)
    /\ registry' = IF result.warns THEN registry \cup {"_comparison_method"} ELSE registry
    /\ UNCHANGED <<U, M, origin, steps>>

ACompare ==
    \E operation \in Operations, other \in CompareOperands :
        Compared(operation, other, Measurement_comparison_method(M[1], other, operation))

\* add_uncert, + and reflected + of U[1] with a plain number
AUAddNumber ==
    \E k \in Numbers, method \in {"add_uncert", "Uncertainty.__add__", "Uncertainty.__radd__"} :
        AUCall(method \o " number", <<k>>, add_uncert_operand(U[1], OpNum(k), RInt(0)),
               add_uncert_operand(U[1], OpNum(k), RInt(0)))

\* U[1] += other, other an Uncertainty or a plain number
AUIaddCall(op, other, result) ==
    /\ last = NoCall
    /\ ~OutsideModel(result)
    /\ last' = Call(op, 1, IF other.kind = "Uncertainty" THEN 2 ELSE 0, <<other.val>>,
                    IF IsErr(result) THEN result.err ELSE "", 0, <<>>)
    /\ U' = IF IsErr(result) THEN U ELSE [U EXCEPT ![1] = result]
    /\ UNCHANGED <<M, origin, steps, registry>>

AUIadd ==
    \/ AUIaddCall("Uncertainty.__iadd__", OpU(U[2]), iadd_operand(U[1], OpU(U[2])))
    \/ \E k \in Numbers :
          AUIaddCall("Uncertainty.__iadd__ number", OpNum(k), iadd_operand(U[1], OpNum(k)))

\* the _with_correlation methods of M[1] with a plain number
with_correlation(method, Uh, self, other, r) ==
    CASE method = "add_with_correlation" -> Measurement_add_with_correlation(Uh, self, other, r)
      [] method = "sub_with_correlation" -> Measurement_sub_with_correlation(Uh, self, other, r)
      [] method = "mul_with_correlation" -> Measurement_mul_with_correlation(Uh, self, other, r)
      [] method = "truediv_with_correlation" ->
            Measurement_truediv_with_correlation(Uh, self, other, r)

AWithCorrelationNumber ==
    \E k \in Numbers, r \in Correlations,
       method \in {"add_with_correlation", "sub_with_correlation",
                   "mul_with_correlation", "truediv_with_correlation"} :
        ACall(method \o " number", <<r, k>>, with_correlation(method, U, M[1], OpNum(k), r), "")

AUAddUncert ==
    \E r \in Correlations :
        AUCall("add_uncert", <<r>>, Uncertainty_add_uncert(U[1], U[2], r),
               Uncertainty_add_uncert(U[2], U[1], r))

\* Uncertainty.__add__: self.add_uncert(other)
AUAdd ==
    AUCall("Uncertainty.__add__", <<>>, Uncertainty_add_uncert(U[1], U[2], RInt(0)),
           Uncertainty_add_uncert(U[2], U[1], RInt(0)))

NextArith ==
    \/ AAddWithCorrelation
    \/ ASubWithCorrelation
    \/ AMulWithCorrelation
    \/ ATruedivWithCorrelation
    \/ AAdd
    \/ ASub
    \/ AMul
    \/ ATruediv
    \/ AAddNumber
    \/ ASubNumber
    \/ AMulNumber
    \/ ATruedivNumber
    \/ ARaddNumber
    \/ ARsubNumber
    \/ ARmulNumber
    \/ ARtruedivNumber
    \/ ATscore
    \/ ATscoreNumber
    \/ ATscoreFloat
    \/ ATscoreFloatNumber
    \/ ACompare
    \/ AUAddNumber
    \/ AUIadd
    \/ AWithCorrelationNumber
    \/ AUAddUncert
    \/ AUAdd

SpecArith == InitArith /\ [][NextArith]_vars

(***************************************************************************)
(* What the arithmetic is claimed to compute, stated on rationals: the     *)
(* operands of SpecArith have rational centers and magnitudes.             *)
(***************************************************************************)
\* sqrt(x^2 + y^2 + 2xyr) for rationals x, y >= 0
Combine(x, y, r) ==
    Real(1, RAdd(RAdd(RMul(x, x), RMul(y, y)), RMul(RInt(2), RMul(RMul(x, y), r))))

\* element i of the magnitude of U[id], as a rational
Mag(id, i) == ToRat(At(U[id], i))

\* element i of the center of M[id]
Cen(id, i) == At(M[id].center, i)

\* the Measurement returned by the last call, its magnitude and its length
Ret == last.out[1]

RetMag == UVal(U, Ret.uncert)

RetLen == VLen(Ret.center)

Returned(op) == last.op = op /\ last.err = ""

\* C7: add_with_correlation and sub_with_correlation have centers a + b and
\* a - b, and both have the uncertainty combine(a.uncert, b.uncert, r);
\* Measurement(10.12, 1.999) + Measurement(20, 3.1) formats as "30 ± 4".
C7_AddSubCorrelation ==
    /\ Returned("add_with_correlation") =>
          /\ \A i \in 1..RetLen : Ret.center.v[i] = RAdd(Cen(1, i), Cen(2, i))
          /\ VLen(RetMag) = BLen(U[1], U[2])
          /\ \A i \in 1..VLen(RetMag) :
                RetMag.v[i] = Combine(Mag(1, i), Mag(2, i), last.args[1])
    /\ Returned("sub_with_correlation") =>
          /\ \A i \in 1..RetLen : Ret.center.v[i] = RSub(Cen(1, i), Cen(2, i))
          /\ VLen(RetMag) = BLen(U[1], U[2])
          /\ \A i \in 1..VLen(RetMag) :
                RetMag.v[i] = Combine(Mag(1, i), Mag(2, i), last.args[1])
    /\ (/\ Returned("__add__")
        /\ M[1].center = Scalar(Rat(1012, 100)) /\ U[1] = Scalar(OfRat(Rat(1999, 1000)))
        /\ M[2].center = Scalar(RInt(20)) /\ U[2] = Scalar(OfRat(Rat(31, 10))))
          => last.out[2] = "30 ± 4"

C7_Witness ==
    /\ Returned("sub_with_correlation")
    /\ last.args[1] = Rat(1, 2)
    /\ Mag(1, 1) = RInt(3)
    /\ Mag(2, 1) = RInt(4)
    /\ RetMag.v[1] = Real(1, RInt(37))

\* C8: add_uncert returns a magnitude m >= 0 with m^2 = a^2 + b^2 + 2abr; with
\* r = 1 it is a + b; combine(3, 4, 0) = 5; + uses r = 0; the operands commute.
C8_AddUncert ==
    /\ Returned("add_uncert") =>
          /\ VLen(last.out[1]) = BLen(U[1], U[2])
          /\ \A i \in 1..VLen(last.out[1]) :
                LET m == last.out[1].v[i]
                    r == last.args[1]
                IN  /\ XGeZero(m)
                    /\ m.q = RAdd(RAdd(RMul(Mag(1, i), Mag(1, i)), RMul(Mag(2, i), Mag(2, i))),
                                  RMul(RInt(2), RMul(RMul(Mag(1, i), Mag(2, i)), r)))
                    /\ r = RInt(1) => m = OfRat(RAdd(Mag(1, i), Mag(2, i)))
                    /\ (r = RInt(0) /\ Mag(1, i) = RInt(3) /\ Mag(2, i) = RInt(4))
                          => m = OfRat(RInt(5))
          /\ last.out[2] = last.out[1]
    /\ Returned("Uncertainty.__add__") =>
          /\ \A i \in 1..VLen(last.out[1]) :
                last.out[1].v[i] = Combine(Mag(1, i), Mag(2, i), RInt(0))
          /\ last.out[2] = last.out[1]

C8_Witness ==
    /\ Returned("add_uncert")
    /\ last.args[1] = RInt(0)
    /\ U[1] = Scalar(OfRat(RInt(3)))
    /\ U[2] = Scalar(OfRat(RInt(4)))
    /\ last.out[1] = Scalar(OfRat(RInt(5)))

\* the relative uncertainty |u / c| and the product or quotient rule
RelMag(id, i) == RAbs(RDiv(Mag(id, i), Cen(id, i)))

ScaledCombine(new_center, i, r) ==
    XAbs(XMulR(Combine(RelMag(1, i), RelMag(2, i), r), new_center))

C10_NumberOperand ==
    /\ Returned("__add__ number") =>
          /\ \A i \in 1..RetLen : Ret.center.v[i] = RAdd(Cen(1, i), last.args[1])
          /\ RetMag = U[1]
    /\ Returned("__sub__ number") =>
          /\ \A i \in 1..RetLen : Ret.center.v[i] = RSub(Cen(1, i), last.args[1])
          /\ RetMag = U[1]
    /\ Returned("__mul__ number") =>
          /\ \A i \in 1..RetLen : Ret.center.v[i] = RMul(Cen(1, i), last.args[1])
          /\ VLen(RetMag) = VLen(U[1])
          /\ \A i \in 1..VLen(RetMag) :
                /\ XGeZero(RetMag.v[i])
                /\ RetMag.v[i] = OfRat(RMul(Mag(1, i), RAbs(last.args[1])))
    /\ Returned("__truediv__ number") =>
          /\ \A i \in 1..RetLen : Ret.center.v[i] = RDiv(Cen(1, i), last.args[1])
          /\ VLen(RetMag) = VLen(U[1])
          /\ \A i \in 1..VLen(RetMag) :
                /\ XGeZero(RetMag.v[i])
                /\ RetMag.v[i] = OfRat(RDiv(Mag(1, i), RAbs(last.args[1])))

C10_Witness ==
    /\ Returned("__mul__ number")
    /\ last.args[1] = Rat(-2, 1)
    /\ Mag(1, 1) = RInt(3)
    /\ RetMag.v[1] = OfRat(RInt(6))

\* C11: with a plain number k on the left, k - a has center k - a.center and
\* the uncertainty of a; k / a (a.center non-zero) has center k / a.center and
\* the magnitude |k / a.center| * a.uncert / |a.center|, so the relative
\* uncertainty is that of a; k + a and k * a are a + k and a * k.
C11_ReflectedNumber ==
    /\ Returned("__rsub__ number") =>
          /\ \A i \in 1..RetLen : Ret.center.v[i] = RSub(last.args[1], Cen(1, i))
          /\ RetMag = U[1]
    /\ Returned("__rtruediv__ number") =>
          /\ \A i \in 1..RetLen : Ret.center.v[i] = RDiv(last.args[1], Cen(1, i))
          /\ VLen(RetMag) = RetLen
          /\ \A i \in 1..RetLen :
                /\ XGeZero(RetMag.v[i])
                /\ RetMag.v[i] = OfRat(RMul(RAbs(Ret.center.v[i]), RelMag(1, i)))
    /\ Returned("__radd__ number") =>
          /\ \A i \in 1..RetLen : Ret.center.v[i] = RAdd(Cen(1, i), last.args[1])
          /\ RetMag = U[1]
    /\ Returned("__rmul__ number") =>
          /\ \A i \in 1..RetLen : Ret.center.v[i] = RMul(Cen(1, i), last.args[1])
          /\ VLen(RetMag) = VLen(U[1])
          /\ \A i \in 1..VLen(RetMag) :
                RetMag.v[i] = OfRat(RMul(Mag(1, i), RAbs(last.args[1])))

C11_Witness ==
    /\ Returned("__rsub__ number")
    /\ last.args[1] = RInt(4)
    /\ Cen(1, 1) = Rat(1, 2)
    /\ Ret.center.v[1] = Rat(7, 2)
    /\ RetMag = U[1]

\* the operands of the last call have a difference: their shapes broadcast
HasDifference ==
    /\ Compat(M[1].center, M[2].center)
    /\ Compat(U[1], U[2])
    /\ (U[1].arr \/ U[2].arr) => BLen(U[1], U[2]) = BLen(M[1].center, M[2].center)

\* |a.center - b.center| / combine(a.uncert, b.uncert, r), for element i
TscoreOf(i, r) ==
    score(RSub(Cen(1, i), Cen(2, i)), Combine(Mag(1, i), Mag(2, i), r))

\* |a.center - k| / a.uncert, for element i
TscoreNumberOf(i, k) == score(RSub(Cen(1, i), k), At(U[1], i))

\* C12: a.tscore(b, r) is |a.center - b.center| / combine(a.uncert, b.uncert, r)
\* and a.tscore(k) is |a.center - k| / a.uncert, in both source files and for
\* scalar-form and array-form operands alike; tscore(Measurement(10, 1),
\* Measurement(11, 1)) is 1/sqrt(2), 0.5 with r = 1, and
\* Measurement(10, 1).tscore(11) is 1.
C12_Tscore ==
    /\ (last.op \in {"uncert.tscore", "measurements.tscore"} /\ HasDifference) =>
          /\ last.err = ""
          /\ VLen(last.out[1]) = BLen(M[1].center, M[2].center)
          /\ \A i \in 1..VLen(last.out[1]) :
                last.out[1].v[i] = TscoreOf(i, last.args[1])
          /\ (/\ M[1].center = Scalar(RInt(10)) /\ U[1] = Scalar(OfRat(RInt(1)))
              /\ M[2].center = Scalar(RInt(11)) /\ U[2] = Scalar(OfRat(RInt(1))))
                => /\ last.args[1] = RInt(0) => last.out[1] = Scalar(Real(1, Rat(1, 2)))
                   /\ last.args[1] = RInt(1) => last.out[1] = Scalar(OfRat(Rat(1, 2)))
    /\ last.op \in {"uncert.tscore number", "measurements.tscore number"} =>
          /\ last.err = ""
          /\ VLen(last.out[1]) = VLen(M[1].center)
          /\ \A i \in 1..VLen(last.out[1]) :
                last.out[1].v[i] = TscoreNumberOf(i, last.args[1])
          /\ (/\ M[1].center = Scalar(RInt(10)) /\ U[1] = Scalar(OfRat(RInt(1)))
              /\ last.args[1] = RInt(11))
                => last.out[1] = Scalar(OfRat(RInt(1)))

\* C13: every comparison <, <=, ==, !=, >, >= of two Measurements returns the
\* comparison of their centers, whatever the uncertainties, and the caller
\* sees the warning that points to tscore each time.
C13_ComparisonWarns ==
    (last.op \in Operations /\ last.other = 2) =>
        /\ VLen(last.out[1]) = BLen(M[1].center, M[2].center)
        /\ \A i \in 1..VLen(last.out[1]) :
              last.out[1].v[i] = compare_one(last.op, Cen(1, i), Cen(2, i))
        /\ last.out[2]

(***************************************************************************)
(* Measurement.__str__ on one scalar-form Measurement M[1] whose           *)
(* uncertainty ranges over the magnitudes of the selector.                 *)
(***************************************************************************)
FormatCenters ==
    {RInt(0), RInt(5), RInt(1234), Rat(1012, 100), Rat(-4, 100), Rat(-98765, 100)}

\* the center scaled by 10^n, n the exponent for magnitude m, is within IntLimit
Roundable(c, m) ==
    ~IsTooBig(XMulR(OfRat(c), RScale10(RInt(1), get_significant_digit_one(m))))

InitFormat ==
    /\ \E c \in FormatCenters, m \in DigitMagnitudes :
          /\ Roundable(c, m)
          /\ U = <<Uncertainty_init(Scalar(m))>>
          /\ M = <<[center |-> Scalar(c), uncert |-> MkRef(1)]>>
    /\ origin = <<{}>>
    /\ last = NoCall
    /\ steps = 0
    /\ registry = {}

CallMeasurementStr ==
    /\ last' = Call("Measurement.__str__", 1, 0, <<>>, "", 0, <<Measurement_str(U, M[1])>>)
    /\ UNCHANGED <<U, M, origin, steps, registry>>

NextFormat == CallMeasurementStr

SpecFormat == InitFormat /\ [][NextFormat]_vars

\* decimal numerals, read character by character
DigitChars == {"0", "1", "2", "3", "4", "5", "6", "7", "8", "9"}

CharAt(s, i) == SubSeq(s, i, i)

IsNatural(s) == Len(s) > 0 /\ \A i \in 1..Len(s) : CharAt(s, i) \in DigitChars

Unsigned(s) == IF Len(s) > 0 /\ CharAt(s, 1) = "-" THEN SubSeq(s, 2, Len(s)) ELSE s

\* s is a numeral with exactly n >= 0 digits after the decimal point
HasDecimals(s, n) ==
    IF n = 0 THEN IsNatural(s)
    ELSE /\ Len(s) >= n + 2
         /\ CharAt(s, Len(s) - n) = "."
         /\ IsNatural(SubSeq(s, 1, Len(s) - n - 1))
         /\ IsNatural(SubSeq(s, Len(s) - n + 1, Len(s)))

\* s is an integer numeral whose z low-order digits are zero
ZeroedInteger(s, z) ==
    /\ IsNatural(s)
    /\ s = "0" \/ (Len(s) > z /\ \A i \in (Len(s) - z + 1)..Len(s) : CharAt(s, i) = "0")

RenderedWith(s, n) ==
    IF n >= 0 THEN HasDecimals(Unsigned(s), n) ELSE ZeroedInteger(Unsigned(s), -n)

Separator == " ± "

\* text is "<center> ± <uncert>" with both numerals rendered with exponent n
FormattedWith(text, n) ==
    \E i \in 2..(Len(text) - Len(Separator)) :
        /\ SubSeq(text, i, i + Len(Separator) - 1) = Separator
        /\ RenderedWith(SubSeq(text, 1, i - 1), n)
        /\ RenderedWith(SubSeq(text, i + Len(Separator), Len(text)), n)

\* C14: a formatted Measurement is "<center> ± <uncert>", both numbers rounded
\* with the exponent n the selector gives for the uncertainty: n digits after
\* the decimal point when n >= 0, integers with -n low-order zeros when n < 0.
C14_SharedExponent ==
    last.op = "Measurement.__str__" =>
        FormattedWith(last.out[1], get_significant_digit_one(U[1].v[1]))

C14_Witness ==
    /\ last.op = "Measurement.__str__"
    /\ M[1].center = Scalar(Rat(-98765, 100))
    /\ U[1] = Scalar(OfRat(RInt(150)))
    /\ last.out[1] = "-990 ± 150"

OtherKindCalls ==
    {"add_uncert number", "Uncertainty.__add__ number", "Uncertainty.__radd__ number",
     "Uncertainty.__iadd__ number", "add_with_correlation number",
     "sub_with_correlation number", "mul_with_correlation number",
     "truediv_with_correlation number"}

C17_RoundTrip ==
    /\ (last.op = "Uncertainty.as_simple_list" /\ Uncertainty_is_array_type(U[1])) =>
          /\ last.err = ""
          /\ Len(last.out[1].list) = VLen(U[1])
          /\ \A i \in 1..VLen(U[1]) : last.out[1].list[i] = Scalar(U[1].v[i])
    /\ last.op = "Uncertainty.from_simple_list" =>
          last.err = "" /\ last.out[1] = U[1]
    /\ (last.op = "Measurement.as_simple_list" /\ Measurement_is_array_type(M[1])) =>
          /\ last.err = ""
          /\ Len(last.out[1].list) = VLen(M[1].center)
          /\ \A i \in 1..VLen(M[1].center) :
                /\ last.out[1].list[i].center = Scalar(M[1].center.v[i])
                /\ UVal(U, last.out[1].list[i].uncert) = Scalar(At(U[1], i))
    /\ last.op = "Measurement.from_simple_list" =>
          /\ last.err = ""
          /\ last.out[1].center = M[1].center
          /\ UVal(U, last.out[1].uncert) = U[1]

\* C17 for every x whose uncertainty is array-form
C17_ArrayUncertRoundTrip ==
    (U # <<>> /\ Uncertainty_is_array_type(U[1])) => C17_RoundTrip

C17_ArrayUncertWitness ==
    /\ last.op = "Measurement.from_simple_list"
    /\ last.err = ""
    /\ VLen(last.out[1].center) = 3


(***************************************************************************)
(* Array-form objects next to the scalar-form objects of their elements:   *)
(* U[1] is array-form, U[2] is scalar-form or an array of the same length, *)
(* M[1] and M[2] have the same array-form center over U[1] and U[2].       *)
(***************************************************************************)
ElementMagnitudes ==
    {OfRat(RInt(0)), OfRat(RInt(5)), OfRat(RInt(10)), OfRat(Rat(196, 100)),
     OfRat(Rat(104, 1000)), OfRat(RInt(9123))}

ElementCenters == <<Rat(1012, 100), Rat(-98765, 100), RInt(5)>>

ElementArrays ==
    {Array(<<a, b>>) : a \in ElementMagnitudes, b \in ElementMagnitudes}
        \cup {Array(<<OfRat(RInt(10)), b, c>>) :
                b \in {OfRat(Rat(196, 100)), OfRat(Rat(104, 1000))},
                c \in {OfRat(RInt(0)), OfRat(RInt(9123))}}

Reversed(x) == Array([i \in 1..VLen(x) |-> x.v[VLen(x) + 1 - i]])

InitElementwise ==
    /\ \E u \in ElementArrays :
       \E o \in {Scalar(m) : m \in ElementMagnitudes} \cup {Reversed(u)} :
       \E center \in {Array(SubSeq(ElementCenters, 1, VLen(u))),
                      Reversed(Array(SubSeq(ElementCenters, 1, VLen(u))))} :
          /\ \A i \in 1..VLen(u) : /\ Roundable(center.v[i], u.v[i])
                                   /\ Roundable(center.v[i], At(o, i))
          /\ U = <<u, o>>
          /\ M = <<[center |-> center, uncert |-> MkRef(1)],
                   [center |-> center, uncert |-> MkRef(2)]>>
    /\ origin = <<{}, {}>>
    /\ last = NoCall
    /\ steps = 0
    /\ registry = {}

\* a call on U[self] or M[self] that returned `result`, or raised
ECall(op, self, other, args, result) ==
    /\ ~OutsideModel(result)
    /\ last' = IF IsErr(result)
               THEN Call(op, self, other, args, result.err, 0, <<>>)
               ELSE Call(op, self, other, args, "", 0, <<result>>)
    /\ UNCHANGED <<U, M, origin, steps, registry>>

EGetSignificantDigit ==
    \E self \in 1..2 :
        ECall("get_significant_digit", self, 0, <<>>,
              Uncertainty_get_significant_digit(U[self]))

EAddUncert ==
    \E self \in 1..2, other \in 1..2, r \in {RInt(0), Rat(1, 2)} :
        ECall("add_uncert", self, other, <<r>>,
              Uncertainty_add_uncert(U[self], U[other], r))

\* str() of an Uncertainty and of a Measurement: the text, wrapped to tell it
\* from an exception
EStr ==
    \E self \in 1..2 :
        ECall("Uncertainty.__str__", self, 0, <<>>, [text |-> Uncertainty_str(U[self])])

EMeasurementStr ==
    \E self \in 1..2 :
        ECall("Measurement.__str__", self, 0, <<>>, [text |-> Measurement_str(U, M[self])])

NextElementwise ==
    \/ EGetSignificantDigit
    \/ EAddUncert
    \/ EStr
    \/ EMeasurementStr

SpecElementwise == InitElementwise /\ [][NextElementwise]_vars

\* the bracketed, comma-separated text of the per-element texts
Bracketed(texts) == "[" \o Join(texts) \o "]"

\* the scalar-form Measurement of element i of M[self]
ElementOf(self, i) ==
    [center |-> Scalar(M[self].center.v[i]),
     uncert |-> MkNew(Scalar(At(U[self], i)))]

\* C18: an array-form operation agrees with the scalar operation element by
\* element: element i of the selector, of add_uncert and of the formatted
\* text of an array-form object is the scalar-form result computed from
\* element i alone, a scalar-form operand being broadcast to every element.
C18_Elementwise ==
    /\ (last.op = "get_significant_digit" /\ last.err = "") =>
          /\ VLen(last.out[1]) = VLen(U[last.self])
          /\ \A i \in 1..VLen(U[last.self]) :
                last.out[1].v[i] =
                    Uncertainty_get_significant_digit(Scalar(U[last.self].v[i])).v[1]
    /\ last.op = "add_uncert" =>
          /\ last.err = ""
          /\ VLen(last.out[1]) = BLen(U[last.self], U[last.other])
          /\ \A i \in 1..VLen(last.out[1]) :
                Scalar(last.out[1].v[i]) =
                    Uncertainty_add_uncert(Scalar(At(U[last.self], i)),
                                           Scalar(At(U[last.other], i)), last.args[1])
    /\ (last.op = "Uncertainty.__str__" /\ Uncertainty_is_array_type(U[last.self])) =>
          last.out[1].text =
              Bracketed([i \in 1..VLen(U[last.self]) |->
                            Uncertainty_str(Scalar(U[last.self].v[i]))])
    /\ last.op = "Measurement.__str__" =>
          last.out[1].text =
              Bracketed([i \in 1..VLen(M[last.self].center) |->
                            Measurement_str(U, ElementOf(last.self, i))])

\* Uncertainty([10, 10]) + Uncertainty(5)
C18_Witness ==
    /\ last.op = "add_uncert"
    /\ last.args = <<RInt(0)>>
    /\ U[last.self] = Array(<<OfRat(RInt(10)), OfRat(RInt(10))>>)
    /\ U[last.other] = Scalar(OfRat(RInt(5)))
    /\ last.out[1] = Array(<<Real(1, RInt(125)), Real(1, RInt(125))>>)


\* the leading digit of m is 1 and m rounded to the extra digit is 20 units
\* of that digit
CarriesToTwenty(m) ==
    /\ LeadingDigits(m, FloorLog10(m)) = 1
    /\ PyRound(m, 1 - FloorLog10(m)).k = 20

\* the digit counts n of round_uncert and n' of _get_significant_digit_one
\* are as C19 has them for the magnitude m
SelectorsRelated(m, n, n2) ==
    IF m.s = 0 THEN n = 0 /\ n2 = 0
    ELSE IF CarriesToTwenty(m) THEN n2 = n - 1
    ELSE n2 = n

\* C19: for every magnitude m, round_uncert(m) and
\* _get_significant_digit_one(m) return the same digit count, except exactly
\* when the leading digit of m is 1 and rounding m to the extra digit carries
\* to "20", where _get_significant_digit_one returns one less; both return 0
\* for m = 0.
C19_SelectorVariants ==
    last.op = "round_uncert" =>
        /\ last.err = ""
        /\ SelectorsRelated(U[1].v[1], last.out[2], get_significant_digit_one(U[1].v[1]))

\* C19 for the statements of round_uncert that follow the lookup of math
C19_BodiesRelated ==
    U[1].v[1].s # 0 =>
        SelectorsRelated(U[1].v[1], round_uncert_body(U[1].v[1]).digits,
                         get_significant_digit_one(U[1].v[1]))

====
